---- MODULE Spec2Model ----
(***************************************************************************)
(* Pharma360 backend: the purchase lifecycle (purchase/service.ts), the    *)
(* transactional sale engine (sales/service.ts) and the tenant connection  *)
(* router (database/mongodb.ts), as state machines.                        *)
(*                                                                         *)
(* Money and quantities are integers (minor units).  Dates are day numbers.*)
(* An optional input field is a set: {} when absent, {v} when present.     *)
(***************************************************************************)
EXTENDS Integers, Sequences, FiniteSets, TLC

\* ------------------------------------------------------------------ bounds
MaxDay == 1          \* the clock runs over days 0..MaxDay
MaxPurchases == 2    \* purchase orders created in one behaviour
MaxConns == 3        \* connections opened in one behaviour
MaxClock == 2        \* the router clock runs over 0..MaxClock
MaxSaleCalls == 2    \* createSale / returnSale calls in one behaviour
MaxDriverRuns == 2   \* closure executions inside one withTransaction call
MaxPurchaseCalls == 3  \* purchase-service calls run step by step
MaxStorageFaults == 1  \* storage writes that fail in one behaviour
MaxCacheClock == 3   \* the cache clock runs over seconds 0..MaxCacheClock
MaxFetches == 3      \* swrFetch calls in one behaviour

\* ------------------------------------------------------- program constants
ThirtyDays == 30     \* near-expiry window, in days
MaxAttempts == 3     \* `while (attempts < 3)` of createSale

VARIABLES
  now,            \* the current day
  batches,        \* InventoryBatch collection, keyed by batch
  purchases,      \* Purchase collection, in creation order
  suppliers,      \* Supplier collection
  dailySummary,   \* DailySummary.totalPurchases per day
  pLast,          \* the last purchase-service call and its outcome
  pcalls,         \* purchase-service calls in flight, by caller
  pstarted,       \* number of purchase-service calls started step by step
  pfaults,        \* number of storage writes that have failed
  rclock,         \* the router's wall clock, in units of thirty minutes
  tenantConnections, \* MongoDBManager.tenantConnections
  conns,          \* every connection createConnection has returned
  gcalls,         \* getTenantConnection calls, by caller
  closing,        \* closeTenantConnection calls awaiting connection.close()
  sweep,          \* the run of cleanupInactiveConnections in progress
  sales,          \* Sale collection, in commit order
  counterSeq,     \* CounterSequence of scope 'sale', by date
  customers,      \* Customer collection
  counters,       \* Counter (point of sale) collection
  calls,          \* createSale / returnSale calls in flight, by caller
  started,        \* number of sale-service calls started
  cclock,         \* the cache's wall clock, in seconds
  cache,          \* the envelope stored under the cache key, if any
  fetches,        \* swrFetch calls and their background refreshes, by caller
  fstarted,       \* number of swrFetch calls started
  arg,            \* the argument of the pure function under study
  ret             \* its result, once applied

purchaseVars ==
  <<purchases, suppliers, dailySummary, pLast, pcalls, pstarted, pfaults>>
routerVars == <<rclock, tenantConnections, conns, gcalls, closing, sweep>>
saleVars == <<sales, counterSeq, customers, counters, calls, started>>
utilVars == <<cclock, cache, fetches, fstarted, arg, ret>>
vars == <<now, batches, purchaseVars, routerVars, saleVars, utilVars>>

\* --------------------------------------------------------------- universes
BatchIds == {"b1", "b2"}
Medicines == {"m1"}                 \* medicine documents that exist
SupplierIds == {"s1", "s2", "s3"}   \* supplier documents that exist
Days == 0..MaxDay
InvalidDate == -1                   \* a Date whose getTime() is NaN

Max(a, b) == IF a >= b THEN a ELSE b

RECURSIVE SumOver(_, _)
\* sum of the field f of the records of sequence s
SumOver(s, f) == IF s = <<>> THEN 0 ELSE Head(s)[f] + SumOver(Tail(s), f)

RECURSIVE SumSeq(_)
SumSeq(s) == IF s = <<>> THEN 0 ELSE Head(s) + SumSeq(Tail(s))

\* ------------------------------------------------------- InventoryBatch
NoBatch == [exists |-> FALSE, quantity |-> 0, initialQuantity |-> 0,
            purchasePrice |-> 0, sellingPrice |-> 0, expiryDate |-> 0,
            status |-> "out_of_stock"]

\* pre('save') hook of the InventoryBatch schema; the same cascade is inlined
\* in createSale and returnSale
batchStatus(quantity, expiryDate, today) ==
  IF quantity = 0 THEN "out_of_stock"
  ELSE IF expiryDate < today THEN "expired"
  ELSE IF expiryDate < today + ThirtyDays THEN "near_expiry"
  ELSE "active"

\* resolvePaymentStatus with a strict comparison for paid
resolvePaymentStatus_Strict(grandTotal, amountPaid) ==
  IF amountPaid > grandTotal THEN "paid"
  ELSE IF amountPaid > 0 THEN "partial"
  ELSE "pending"

\* ------------------------------------------------------------- Purchase
resolvePaymentStatus(grandTotal, amountPaid) ==
  IF amountPaid >= grandTotal THEN "paid"
  ELSE IF amountPaid > 0 THEN "partial"
  ELSE "pending"

\* count of purchases of the order day, plus one
generatePurchaseOrderNumber(ps, orderDate) ==
  [date |-> orderDate,
   seq |-> Cardinality({i \in 1..Len(ps) : ps[i].orderDate = orderDate}) + 1]

\* the per-line checks of createPurchase, lines 115-177
purchaseLineValid(items, i) ==
  /\ items[i].medicineId \in Medicines
  /\ items[i].quantity > 0
  /\ items[i].freeQuantity >= 0
  /\ items[i].purchasePrice >= 0
  /\ items[i].sellingPrice >= 0
  /\ \A j \in 1..(i - 1) : ~(items[j].medicineId = items[i].medicineId
                             /\ items[j].batchNumber = items[i].batchNumber)

purchaseItemOf(line) ==
  [medicineId |-> line.medicineId, batchNumber |-> line.batchNumber,
   quantity |-> line.quantity, freeQuantity |-> line.freeQuantity,
   purchasePrice |-> line.purchasePrice, sellingPrice |-> line.sellingPrice,
   expiryDate |-> line.expiryDate,
   receivedQuantity |-> 0, receivedFreeQuantity |-> 0,
   total |-> line.quantity * line.purchasePrice]

purchaseItemsOf(items) == [i \in 1..Len(items) |-> purchaseItemOf(items[i])]

createGrandTotal(data) ==
  SumOver(purchaseItemsOf(data.items), "total") - data.discount + data.tax

\* every check of createPurchase that throws before the first write
createPurchaseValid(data, sups) ==
  /\ data.discount >= 0 /\ data.tax >= 0 /\ data.amountPaid >= 0
  /\ Len(data.items) > 0
  /\ data.supplierId \in SupplierIds
  /\ sups[data.supplierId].isActive
  /\ \A i \in 1..Len(data.items) : purchaseLineValid(data.items, i)
  /\ data.discount <= SumOver(purchaseItemsOf(data.items), "total")
  /\ createGrandTotal(data) >= 0
  /\ data.amountPaid <= createGrandTotal(data)
  /\ (data.amountPaid > 0 => data.hasPaymentMethod)

createDueAmount(grandTotal, amountPaid) == Max(0, grandTotal - amountPaid)

newPurchase(data, ps, orderDate) ==
  LET its == purchaseItemsOf(data.items)
      subtotal == SumOver(its, "total")
      grandTotal == subtotal - data.discount + data.tax
  IN [purchaseOrderNumber |-> generatePurchaseOrderNumber(ps, orderDate),
      supplierId |-> data.supplierId,
      orderDate |-> orderDate,
      items |-> its,
      subtotal |-> subtotal,
      discount |-> data.discount,
      tax |-> data.tax,
      grandTotal |-> grandTotal,
      amountPaid |-> data.amountPaid,
      dueAmount |-> createDueAmount(grandTotal, data.amountPaid),
      paymentStatus |-> resolvePaymentStatus(grandTotal, data.amountPaid),
      status |-> "ordered",
      payments |-> IF data.amountPaid > 0 THEN <<data.amountPaid>> ELSE <<>>,
      receivedDate |-> {}]

\* $inc of the supplier aggregates after Purchase.create
supplierAfterCreate(sup, grandTotal, dueAmount, orderDate) ==
  [sup EXCEPT !.totalPurchases = @ + grandTotal,
              !.currentDue = @ + dueAmount,
              !.lastPurchaseDate = {orderDate}]

\* ------------------------------------------------------ receivePurchase
ValidObjectIds == {"m1", "m9"}      \* strings that parse as an ObjectId

TheValue(opt) == CHOOSE v \in opt : TRUE

\* updateMap.get(key): the last update of the payload with the line's key
updateFor(item, updates) ==
  LET hits == {k \in 1..Len(updates) :
                 /\ updates[k].medicineId = item.medicineId
                 /\ updates[k].batchNumber = item.batchNumber}
  IN IF hits = {} THEN {}
     ELSE {updates[CHOOSE k \in hits : \A j \in hits : j <= k]}

\* the throws of applyReceiveItemUpdates
receiveUpdatesValid(items, updates) ==
  /\ \A k \in 1..Len(updates) : updates[k].medicineId \in ValidObjectIds
  /\ \A i \in 1..Len(items) :
       \A u \in updateFor(items[i], updates) :
         /\ \A q \in u.quantityReceived : q >= 0
         /\ \A q \in u.freeQuantityReceived : q >= 0
         /\ \A q \in u.purchasePrice : q >= 0

\* `if (!item.receivedQuantity) item.receivedQuantity = item.quantity`
defaultReceivedQuantity(receivedQuantity, quantity) ==
  IF receivedQuantity = 0 THEN quantity ELSE receivedQuantity

\* one line after applyReceiveItemUpdates
applyReceiveItemUpdate(item, updates) ==
  LET us == updateFor(item, updates)
      rq == IF us # {} /\ TheValue(us).quantityReceived # {}
            THEN TheValue(TheValue(us).quantityReceived)
            ELSE item.receivedQuantity
      rfq == IF us # {} /\ TheValue(us).freeQuantityReceived # {}
             THEN TheValue(TheValue(us).freeQuantityReceived)
             ELSE item.receivedFreeQuantity
      pp == IF us # {} /\ TheValue(us).purchasePrice # {}
            THEN TheValue(TheValue(us).purchasePrice)
            ELSE item.purchasePrice
      rq2 == defaultReceivedQuantity(rq, item.quantity)
  IN [item EXCEPT !.receivedQuantity = rq2,
                  !.receivedFreeQuantity = rfq,
                  !.purchasePrice = pp,
                  !.total = rq2 * pp]

\* one line in the branch without item overrides, lines 494-499
receiveItemDefault(item) ==
  LET rq == defaultReceivedQuantity(item.receivedQuantity, item.quantity)
  IN [item EXCEPT !.receivedQuantity = rq,
                  !.total = rq * item.purchasePrice]

receivedItems(items, updates) ==
  IF Len(updates) > 0
  THEN [i \in 1..Len(items) |-> applyReceiveItemUpdate(items[i], updates)]
  ELSE [i \in 1..Len(items) |-> receiveItemDefault(items[i])]

\* merge into the batch of the same (medicineId, batchNumber), or create it
batchAfterReceipt(batch, item, today) ==
  LET totalReceived == item.receivedQuantity + item.receivedFreeQuantity
      q == IF batch.exists THEN batch.quantity + totalReceived ELSE totalReceived
      iq == IF batch.exists THEN batch.initialQuantity + totalReceived
            ELSE totalReceived
  IN IF totalReceived <= 0 THEN batch
     ELSE [exists |-> TRUE, quantity |-> q, initialQuantity |-> iq,
           purchasePrice |-> item.purchasePrice,
           sellingPrice |-> item.sellingPrice,
           expiryDate |-> item.expiryDate,
           status |-> batchStatus(q, item.expiryDate, today)]

RECURSIVE receiveBatches(_, _, _)
\* the loop of lines 507-545 over the lines of the order
receiveBatches(bs, items, today) ==
  IF items = <<>> THEN bs
  ELSE LET it == Head(items)
       IN receiveBatches(
            [bs EXCEPT ![it.batchNumber] = batchAfterReceipt(@, it, today)],
            Tail(items), today)

\* receiveAllowed without the already-received check
receiveAllowed_NoReceivedCheck(p) ==
  /\ p.status # "cancelled"
  /\ p.status # "completed"

\* the status checks of receivePurchase, lines 483-489
receiveAllowed(p) ==
  /\ p.status # "cancelled"
  /\ p.status # "received"
  /\ p.status # "completed"

statusAfterReceive(p) == IF p.dueAmount > 0 THEN "received" ELSE "completed"

\* paymentAllowed without the remaining-due ceiling
paymentAllowed_NoDueCeiling(p, data) ==
  /\ data.amount >= 1
  /\ p.status # "cancelled"
  /\ ~(p.paymentStatus = "paid" \/ p.dueAmount <= 0)
  /\ data.paidAt # {InvalidDate}
  /\ data.hasPaymentMethod

\* -------------------------------------------------------- recordPayment
\* the rejections of recordPayment, lines 602-635
paymentAllowed(p, data) ==
  /\ data.amount >= 1
  /\ p.status # "cancelled"
  /\ ~(p.paymentStatus = "paid" \/ p.dueAmount <= 0)
  /\ data.amount <= p.dueAmount
  /\ data.paidAt # {InvalidDate}
  /\ data.hasPaymentMethod

statusAfterPayment(status, paymentStatus) ==
  IF status = "received" /\ paymentStatus = "paid" THEN "completed" ELSE status

purchaseAfterPayment(p, amount) ==
  LET paid == p.amountPaid + amount
      ps == resolvePaymentStatus(p.grandTotal, paid)
  IN [p EXCEPT !.payments = Append(@, amount),
               !.amountPaid = paid,
               !.dueAmount = Max(0, p.grandTotal - paid),
               !.paymentStatus = ps,
               !.status = statusAfterPayment(p.status, ps)]

supplierAfterPayment(sup, amount) == [sup EXCEPT !.currentDue = @ - amount]

\* cancelAllowed without the received check
cancelAllowed_NoReceivedCheck(p) ==
  /\ p.status # "cancelled"
  /\ p.status # "completed"

\* -------------------------------------------------------- cancelPurchase
\* the status checks of cancelPurchase, lines 685-694
cancelAllowed(p) ==
  /\ p.status # "cancelled"
  /\ p.status # "received"
  /\ p.status # "completed"

purchaseAfterCancel(p) ==
  [p EXCEPT !.status = "cancelled", !.paymentStatus = "pending"]

\* supplierAfterCancel reversing the grand total on both aggregates
supplierAfterCancel_GrandTotalDue(sup, p) ==
  [sup EXCEPT !.currentDue = @ - p.grandTotal,
              !.totalPurchases = @ - p.grandTotal]


supplierAfterCancel(sup, p) ==
  [sup EXCEPT !.currentDue = @ - p.dueAmount,
              !.totalPurchases = @ - p.grandTotal]

\* ============================================== tenant connection router
TenantIds == {"t1", "t2"}
GetCallers == {"g1", "g2"}

NoEntry == [conn |-> 0, lastAccessed |-> 0]
IdleCall == [pc |-> "idle", tenant |-> "t1", result |-> 0]

\* a lookup that takes any registered connection for a usable one
entryLive_AnyState(entry, cs) == entry.conn # 0

\* readyState === 1 of the registered connection
entryLive(entry, cs) == entry.conn # 0 /\ cs[entry.conn].state = "connected"

liveConnections(cs, t) ==
  {c \in 1..Len(cs) : cs[c].tenant = t /\ cs[c].state = "connected"}

\* lines 66-70: the registry lookup; a hit refreshes lastAccessed and returns,
\* a miss suspends the caller in createConnection(...).asPromise()
getTenantConnectionLookup(g, t) ==
  /\ gcalls[g].pc \in {"idle", "done", "failed"}
  /\ IF entryLive(tenantConnections[t], conns)
     THEN /\ tenantConnections' =
               [tenantConnections EXCEPT ![t].lastAccessed = rclock]
          /\ gcalls' = [gcalls EXCEPT ![g] =
               [pc |-> "done", tenant |-> t,
                result |-> tenantConnections[t].conn]]
     ELSE /\ Len(conns) + Cardinality({h \in GetCallers :
                 gcalls[h].pc = "creating"}) < MaxConns
          /\ gcalls' = [gcalls EXCEPT ![g] =
               [pc |-> "creating", tenant |-> t, result |-> 0]]
          /\ UNCHANGED tenantConnections
  /\ UNCHANGED <<rclock, conns, closing>>
  /\ UNCHANGED <<sweep, now, batches, purchaseVars, utilVars, saleVars>>

\* lines 77-105: the connection is up; it is stored under the tenant id,
\* whatever the registry holds by now, and returned
getTenantConnectionCreated(g) ==
  /\ gcalls[g].pc = "creating"
  /\ LET t == gcalls[g].tenant
         c == Len(conns) + 1
     IN /\ conns' = Append(conns, [tenant |-> t, state |-> "connected"])
        /\ tenantConnections' = [tenantConnections EXCEPT ![t] =
               [conn |-> c, lastAccessed |-> rclock]]
        /\ gcalls' = [gcalls EXCEPT ![g] =
               [pc |-> "done", tenant |-> t, result |-> c]]
  /\ UNCHANGED <<rclock, closing>>
  /\ UNCHANGED <<sweep, now, batches, purchaseVars, utilVars, saleVars>>

\* lines 106-109: createConnection rejected; the error is rethrown
getTenantConnectionFailed(g) ==
  /\ gcalls[g].pc = "creating"
  /\ gcalls' = [gcalls EXCEPT ![g].pc = "failed"]
  /\ UNCHANGED <<rclock, tenantConnections, conns, closing>>
  /\ UNCHANGED <<sweep, now, batches, purchaseVars, utilVars, saleVars>>

\* lines 100-103: the 'disconnected' handler of connection c deletes the
\* registry entry of its tenant
onDisconnected(c) ==
  /\ c \in 1..Len(conns)
  /\ conns[c].state = "connected"
  /\ conns' = [conns EXCEPT ![c].state = "disconnected"]
  /\ tenantConnections' = [tenantConnections EXCEPT ![conns[c].tenant] = NoEntry]
  /\ UNCHANGED <<rclock, gcalls, closing>>
  /\ UNCHANGED <<sweep, now, batches, purchaseVars, utilVars, saleVars>>

\* lines 116-118: closeTenantConnection finds an entry and awaits close()
closeTenantConnectionBegin(t) ==
  /\ tenantConnections[t].conn # 0
  /\ [tenant |-> t, conn |-> tenantConnections[t].conn] \notin closing
  /\ closing' = closing \cup {[tenant |-> t, conn |-> tenantConnections[t].conn]}
  /\ conns' = [conns EXCEPT ![tenantConnections[t].conn].state = "closing"]
  /\ UNCHANGED <<rclock, tenantConnections, gcalls>>
  /\ UNCHANGED <<sweep, now, batches, purchaseVars, utilVars, saleVars>>

\* lines 118-120: close() has resolved (its 'disconnected' event has run the
\* handler above); the entry of the tenant is deleted
closeTenantConnectionEnd(cl) ==
  /\ cl \in closing
  /\ conns' = [conns EXCEPT ![cl.conn].state = "closed"]
  /\ tenantConnections' = [tenantConnections EXCEPT ![cl.tenant] = NoEntry]
  /\ closing' = closing \ {cl}
  /\ UNCHANGED <<rclock, gcalls>>
  /\ UNCHANGED <<sweep, now, batches, purchaseVars, utilVars, saleVars>>

ClockTick ==
  /\ rclock < MaxClock
  /\ rclock' = rclock + 1
  /\ UNCHANGED <<tenantConnections, conns, gcalls, closing>>
  /\ UNCHANGED <<sweep, now, batches, purchaseVars, utilVars, saleVars>>

\* 30 * 60 * 1000 ms, in clock units
ThirtyMinutes == 1

NoSweep == [pc |-> "idle", remaining |-> {}, cur |-> NoEntry.conn,
            curTenant |-> "t1", ran |-> FALSE, cutoff |-> 0, evicted |-> {}]

\* an entry that nothing ever counts as idle
inactive_Never(entry, clock) == FALSE

\* line 132: tenantConn.lastAccessed < thirtyMinutesAgo
inactive(entry, clock) == entry.lastAccessed < clock - ThirtyMinutes

\* the sweep after it is done with tenant t
sweepAfter(sw, t, closed) ==
  [sw EXCEPT !.pc = IF sw.remaining \ {t} = {} THEN "idle" ELSE "next",
             !.remaining = @ \ {t},
             !.cur = NoEntry.conn,
             !.curTenant = NoSweep.curTenant,
             !.evicted = IF closed THEN @ \cup {t} ELSE @]

\* lines 116-118: closeTenantConnection(t) finds the entry of t and calls
\* close() on its connection
closeStarted(cs, tc, t) ==
  [cs EXCEPT ![tc[t].conn].state = IF @ = "connected" THEN "closing" ELSE @]

\* lines 128-139: the timer fires; the registry is scanned for the tenants
\* whose entry is idle and, in the same turn of the event loop,
\* closeTenantConnection of the first of them awaits close()
cleanupInactiveConnectionsBegin ==
  LET inactiveConnections ==
        {t \in TenantIds : tenantConnections[t].conn # 0
                           /\ inactive(tenantConnections[t], rclock)}
      swept == [NoSweep EXCEPT !.ran = TRUE, !.cutoff = rclock - ThirtyMinutes]
  IN /\ sweep.pc = "idle"
     /\ IF inactiveConnections = {}
        THEN sweep' = swept /\ UNCHANGED conns
        ELSE \E t \in inactiveConnections :
               /\ sweep' = [swept EXCEPT !.pc = "closing",
                                         !.remaining = inactiveConnections,
                                         !.cur = tenantConnections[t].conn,
                                         !.curTenant = t]
               /\ conns' = closeStarted(conns, tenantConnections, t)
     /\ UNCHANGED <<rclock, tenantConnections, gcalls, closing>>
     /\ UNCHANGED <<now, batches, purchaseVars, utilVars, saleVars>>

\* lines 118-120 and 137-139: close() has resolved; the entry of the tenant
\* is deleted and the loop goes on in the same turn: the tenants that have no
\* entry by now are passed over, and closeTenantConnection of the next
\* tenant awaits close()
cleanupInactiveConnectionsClosed ==
  LET tc == [tenantConnections EXCEPT ![sweep.curTenant] = NoEntry]
      cs == [conns EXCEPT ![sweep.cur].state = "closed"]
      done == sweepAfter(sweep, sweep.curTenant, TRUE)
      live == {t \in done.remaining : tc[t].conn # 0}
  IN /\ sweep.pc = "closing"
     /\ tenantConnections' = tc
     /\ IF live = {}
        THEN /\ sweep' = [done EXCEPT !.pc = "idle", !.remaining = {}]
             /\ conns' = cs
        ELSE \E t \in live, skipped \in SUBSET (done.remaining \ live) :
               /\ sweep' = [done EXCEPT !.pc = "closing",
                                        !.remaining = @ \ skipped,
                                        !.cur = tc[t].conn,
                                        !.curTenant = t]
               /\ conns' = closeStarted(cs, tc, t)
     /\ UNCHANGED <<rclock, gcalls, closing>>
     /\ UNCHANGED <<now, batches, purchaseVars, utilVars, saleVars>>

RouterInit ==
  /\ rclock = 0
  /\ tenantConnections = [t \in TenantIds |-> NoEntry]
  /\ conns = <<>>
  /\ gcalls = [g \in GetCallers |-> IdleCall]
  /\ closing = {}
  /\ sweep = NoSweep

\* ===================================================== sale transactions
CustomerIds == {"c1"}
CounterIds == {"k1"}
Callers == {"p1", "p2"}

\* the tenant's collections a sale transaction reads and writes
DB == [batches |-> batches, counterSeq |-> counterSeq, sales |-> sales,
       customers |-> customers, counters |-> counters]

\* document keys, for write-conflict detection
Key(kind, n, id) == [kind |-> kind, n |-> n, id |-> id]
BatchKey(b) == Key("batch", 0, b)
SeqKey(d) == Key("seq", d, "")
SaleKey(i) == Key("sale", i, "")
CustomerKey(c) == Key("customer", 0, c)
CounterKey(k) == Key("counter", 0, k)

\* a transaction that has begun and neither committed nor aborted
txnOpen(call) ==
  call.pc \in {"lines", "invoice", "finish", "rfind", "rlines", "rfinish",
               "commit"}

\* a store that lets concurrent transactions overwrite each other
writeConflict_Never(cs, p, key) == FALSE

\* the storage engine refuses, with a TransientTransactionError, a write to a
\* document that another open transaction has written or that was committed
\* after this transaction's snapshot
writeConflict(cs, p, key) ==
  \/ key \in cs[p].stale
  \/ \E q \in Callers \ {p} : txnOpen(cs[q]) /\ key \in cs[q].written

\* an abort that leaves the batch decrements of the attempt in place
rolledBack_KeepBatches(db, ws) == [db EXCEPT !.batches = ws.batches]

\* abortTransaction: what the collections hold after an aborted attempt whose
\* working copy was ws
rolledBack(db, ws) == db

\* the errors that carry the label TransientTransactionError: a write that
\* conflicts with another transaction, a commit that fails
TransientErrors == {"transient"}

\* the error is retried by the loop of createSale, lines 188-193
appRetries(op, kind, attempts) ==
  op = "createSale" /\ kind \in TransientErrors /\ attempts < MaxAttempts

\* withTransaction re-runs its callback on a TransientTransactionError until
\* its time limit has passed
driverRetries(kind, runs) == kind \in TransientErrors /\ runs < MaxDriverRuns

\* ------------------------------------------------------------- createSale
\* validate(...) and the empty-items check, lines 18-26
createSaleInputValid(data) ==
  /\ Len(data.items) > 0
  /\ data.amountPaid >= 0

\* `item.sellingPrice || batch.sellingPrice`
lineSellingPrice(item, batch) ==
  IF item.sellingPrice # {} /\ TheValue(item.sellingPrice) # 0
  THEN TheValue(item.sellingPrice) ELSE batch.sellingPrice

\* the three throws of one pass of the line loop, lines 50-65
lineError(item, ws) ==
  IF item.batchId \notin BatchIds \/ ~ws.batches[item.batchId].exists
  THEN "batch_not_found"
  ELSE IF ws.batches[item.batchId].quantity < item.quantity
  THEN "insufficient_stock"
  ELSE IF item.medicineId \notin Medicines THEN "medicine_not_found"
  ELSE "none"

saleItemOf(item, batch) ==
  LET sp == lineSellingPrice(item, batch)
  IN [batchId |-> item.batchId, quantity |-> item.quantity,
      sellingPrice |-> sp, discount |-> item.discount,
      total |-> sp * item.quantity - item.discount]

\* lines 85-95: the decrement and the status cascade
batchAfterSale(batch, quantity, today) ==
  [batch EXCEPT !.quantity = @ - quantity,
                !.status = batchStatus(batch.quantity - quantity,
                                       batch.expiryDate, today)]

\* validators of the InventoryBatch schema that save() runs
batchSchemaValid(batch) == batch.quantity >= 0 /\ batch.initialQuantity >= 0

\* a grand total that forgets the sale-level discount
saleGrandTotal_NoDiscount(subtotal, totalDiscount) == subtotal

saleGrandTotal(subtotal, totalDiscount) == subtotal - totalDiscount + 0

\* line 104
paymentInsufficient(data, grandTotal) ==
  data.amountPaid < grandTotal /\ data.paymentMethod # "credit"

\* a sale that never gives change
changeReturnedOf_Zero(data, grandTotal) == 0

changeReturnedOf(data, grandTotal) ==
  IF data.paymentMethod = "credit" THEN 0 ELSE data.amountPaid - grandTotal

\* String(sequence).padStart(4, '0'), as decimal digits
RECURSIVE Digits(_)
Digits(n) == IF n < 10 THEN <<n>> ELSE Digits(n \div 10) \o <<n % 10>>

RECURSIVE Zeros(_)
Zeros(k) == IF k <= 0 THEN <<>> ELSE <<0>> \o Zeros(k - 1)

padStart4(n) == Zeros(4 - Len(Digits(n))) \o Digits(n)

\* generateInvoiceNumber: $inc with upsert, then INV-<date>-<padded sequence>
\* a counter that skips a number
sequenceAfterInc_ByTwo(seqs, day) == [seqs EXCEPT ![day] = @ + 2]

sequenceAfterInc(seqs, day) == [seqs EXCEPT ![day] = @ + 1]

invoiceNumberOf(day, sequence) == [date |-> day, digits |-> padStart4(sequence)]

\* lines 113-130: the explicit counter if active, else the active default
activeCounter(data, ctrs) ==
  IF data.counterId # {}
  THEN {k \in CounterIds : k = TheValue(data.counterId)
                           /\ ctrs[k].status = "active"}
  ELSE {k \in CounterIds : ctrs[k].isDefault /\ ctrs[k].status = "active"}

newSale(data, invoiceNumber, saleItems, subtotal, today) ==
  LET grandTotal == saleGrandTotal(subtotal, data.totalDiscount)
  IN [invoiceNumber |-> invoiceNumber,
      customerId |-> data.customerId,
      items |-> saleItems,
      subtotal |-> subtotal,
      totalDiscount |-> data.totalDiscount,
      tax |-> 0,
      grandTotal |-> grandTotal,
      paymentMethod |-> data.paymentMethod,
      amountPaid |-> data.amountPaid,
      changeReturned |-> changeReturnedOf(data, grandTotal),
      saleDate |-> today,
      status |-> "completed"]

\* validators of the Sale schema that create() and save() run
saleSchemaValid(sale) ==
  /\ Len(sale.items) > 0
  /\ \A i \in 1..Len(sale.items) :
       /\ sale.items[i].quantity >= 1
       /\ sale.items[i].sellingPrice >= 0
       /\ sale.items[i].discount >= 0
       /\ sale.items[i].total >= 0
  /\ sale.subtotal >= 0
  /\ sale.totalDiscount >= 0
  /\ sale.grandTotal >= 0
  /\ sale.amountPaid >= 0
  /\ sale.changeReturned >= 0

\* lines 165-178
customerAfterSale(cust, data, grandTotal, today) ==
  [cust EXCEPT !.totalPurchases = @ + grandTotal,
               !.loyaltyPoints = @ + (grandTotal \div 100),
               !.dueAmount = IF data.paymentMethod = "credit"
                             THEN @ + grandTotal ELSE @,
               !.lastPurchaseDate = {today}]

\* ------------------------------------------------------------- returnSale
\* the throws at the head of one pass of the return loop, lines 333-347
returnLineError(returnItem, sale, ws) ==
  IF ~(returnItem.saleItemIndex + 1 \in 1..Len(sale.items))
  THEN "invalid_index"
  ELSE IF returnItem.quantity > sale.items[returnItem.saleItemIndex + 1].quantity
  THEN "exceeds_sold"
  ELSE IF ~ws.batches[sale.items[returnItem.saleItemIndex + 1].batchId].exists
  THEN "batch_not_found"
  ELSE "none"

\* a return that leaves the stock of the batch as it is
batchAfterReturn_NoRestock(batch, quantity, today) ==
  [batch EXCEPT !.status = batchStatus(batch.quantity, batch.expiryDate, today)]

\* lines 349-364
batchAfterReturn(batch, quantity, today) ==
  [batch EXCEPT !.quantity = @ + quantity,
                !.status = batchStatus(batch.quantity + quantity,
                                       batch.expiryDate, today)]

\* (saleItem.total / saleItem.quantity) * returnItem.quantity
returnAmountOf(saleItem, quantity) ==
  IF saleItem.quantity = 0 THEN 0
  ELSE (saleItem.total * quantity) \div saleItem.quantity

saleItemAfterReturn(saleItem, quantity) ==
  [saleItem EXCEPT !.quantity = @ - quantity,
                   !.total = @ - returnAmountOf(saleItem, quantity)]

\* a return that marks the sale returned whatever is left on its lines
saleAfterReturn_AlwaysReturned(sale, totalReturnAmount) ==
  [sale EXCEPT !.status = "returned",
               !.grandTotal = @ - totalReturnAmount]

\* lines 373-375
saleAfterReturn(sale, totalReturnAmount) ==
  [sale EXCEPT
     !.status = IF \A i \in 1..Len(sale.items) : sale.items[i].quantity = 0
                THEN "returned" ELSE "partial_return",
     !.grandTotal = @ - totalReturnAmount]

\* lines 379-390
customerAfterReturn(cust, totalReturnAmount) ==
  [cust EXCEPT !.totalPurchases = @ - totalReturnAmount,
               !.loyaltyPoints = @ - (totalReturnAmount \div 100)]

\* ------------------------------------------------ purchase-service inputs
PLine(m, b, q, fq, pp) ==
  [medicineId |-> m, batchNumber |-> b, quantity |-> q, freeQuantity |-> fq,
   purchasePrice |-> pp, sellingPrice |-> 50, expiryDate |-> 60]

ItemsA == <<PLine("m1", "b1", 2, 1, 10)>>
ItemsB == <<PLine("m1", "b1", 1, 0, 10), PLine("m1", "b2", 1, 1, 0)>>
ItemsC == <<PLine("m1", "b2", 1, 0, 0)>>

CPurchase(s, its, d, t, paid, method) ==
  [supplierId |-> s, items |-> its, discount |-> d, tax |-> t,
   amountPaid |-> paid, hasPaymentMethod |-> method]

\* orders that pass every check, and one order for each check that throws
CreatePurchaseInputs ==
  { CPurchase("s1", ItemsA, 5, 2, 0, FALSE),
    CPurchase("s1", ItemsA, 5, 2, 10, TRUE),
    CPurchase("s2", ItemsB, 0, 0, 0, TRUE),
    CPurchase("s2", ItemsB, 0, 0, 10, TRUE),
    CPurchase("s2", ItemsC, 0, 0, 0, FALSE),
    CPurchase("s3", ItemsA, 0, 0, 0, FALSE),
    CPurchase("s9", ItemsA, 0, 0, 0, FALSE),
    CPurchase("s1", <<>>, 0, 0, 0, FALSE),
    CPurchase("s1", ItemsA \o ItemsA, 0, 0, 0, FALSE),
    CPurchase("s1", <<PLine("m1", "b2", 0, 0, 10)>>, 0, 0, 0, FALSE),
    CPurchase("s1", <<PLine("m1", "b2", 1, -1, 10)>>, 0, 0, 0, FALSE),
    CPurchase("s1", <<PLine("m9", "b2", 1, 0, 10)>>, 0, 0, 0, FALSE),
    CPurchase("s1", ItemsA, 40, 0, 0, FALSE),
    CPurchase("s1", ItemsA, -1, 0, 0, FALSE),
    CPurchase("s1", ItemsA, 0, 0, 100, TRUE),
    CPurchase("s1", ItemsA, 0, 0, 10, FALSE) }

RUpdate(m, b, qr, fqr, pp) ==
  [medicineId |-> m, batchNumber |-> b, quantityReceived |-> qr,
   freeQuantityReceived |-> fqr, purchasePrice |-> pp]

ReceiveItemInputs ==
  { <<>>,
    <<RUpdate("m1", "b1", {1}, {2}, {5})>>,
    <<RUpdate("m1", "b1", {0}, {}, {})>>,
    <<RUpdate("m1", "b1", {-1}, {}, {})>>,
    <<RUpdate("zz", "b1", {1}, {}, {})>> }

ReceivePurchaseInputs ==
  [items : ReceiveItemInputs, receivedDate : {{}, {InvalidDate}}]

RecordPaymentInputs ==
  [amount : {0, 10, 100}, paidAt : {{}, {InvalidDate}},
   hasPaymentMethod : BOOLEAN]

PurchaseIds == 1..(MaxPurchases + 1)   \* the last one is never created

\* ---------------------------------------------------- purchase operations
createPurchase(data) ==
  /\ Len(purchases) < MaxPurchases
  /\ IF createPurchaseValid(data, suppliers)
     THEN LET p == newPurchase(data, purchases, now)
          IN /\ purchases' = Append(purchases, p)
             /\ suppliers' = [suppliers EXCEPT ![data.supplierId] =
                    supplierAfterCreate(@, p.grandTotal, p.dueAmount, now)]
             /\ pLast' = [op |-> "create", id |-> Len(purchases) + 1, ok |-> TRUE]
     ELSE /\ UNCHANGED <<purchases, suppliers>>
          /\ pLast' = [op |-> "create", id |-> 0, ok |-> FALSE]
  /\ UNCHANGED <<now, batches, dailySummary, routerVars, saleVars, utilVars>>
  /\ UNCHANGED <<pcalls, pstarted, pfaults>>

receivePurchase(id, data) ==
  LET found == id \in 1..Len(purchases)
      p == purchases[id]
      ok == /\ found
            /\ receiveAllowed(p)
            /\ (Len(data.items) > 0 => receiveUpdatesValid(p.items, data.items))
            /\ data.receivedDate # {InvalidDate}
      receiveDate == IF data.receivedDate = {} THEN now
                     ELSE TheValue(data.receivedDate)
      its == receivedItems(p.items, data.items)
  IN /\ IF ok
        THEN /\ batches' = receiveBatches(batches, its, now)
             /\ purchases' = [purchases EXCEPT ![id] =
                    [p EXCEPT !.items = its,
                              !.status = statusAfterReceive(p),
                              !.receivedDate = {receiveDate}]]
             /\ suppliers' = [suppliers EXCEPT
                    ![p.supplierId].lastPurchaseDate = {receiveDate}]
             /\ dailySummary' = [dailySummary EXCEPT
                    ![receiveDate] = @ + p.grandTotal]
        ELSE UNCHANGED <<batches, purchases, suppliers, dailySummary>>
     /\ pLast' = [op |-> "receive", id |-> id, ok |-> ok]
     /\ UNCHANGED <<now, routerVars, saleVars, utilVars, pcalls, pstarted, pfaults>>

recordPayment(id, data) ==
  LET found == id \in 1..Len(purchases)
      p == purchases[id]
      ok == found /\ paymentAllowed(p, data)
  IN /\ IF ok
        THEN /\ purchases' = [purchases EXCEPT ![id] =
                    purchaseAfterPayment(p, data.amount)]
             /\ suppliers' = [suppliers EXCEPT ![p.supplierId] =
                    supplierAfterPayment(@, data.amount)]
        ELSE UNCHANGED <<purchases, suppliers>>
     /\ pLast' = [op |-> "payment", id |-> id, ok |-> ok]
     /\ UNCHANGED <<now, batches, dailySummary, routerVars, saleVars, utilVars>>
     /\ UNCHANGED <<pcalls, pstarted, pfaults>>

cancelPurchase(id) ==
  LET found == id \in 1..Len(purchases)
      p == purchases[id]
      ok == found /\ cancelAllowed(p)
  IN /\ IF ok
        THEN /\ purchases' = [purchases EXCEPT ![id] = purchaseAfterCancel(p)]
             /\ suppliers' = [suppliers EXCEPT ![p.supplierId] =
                    supplierAfterCancel(@, p)]
        ELSE UNCHANGED <<purchases, suppliers>>
     /\ pLast' = [op |-> "cancel", id |-> id, ok |-> ok]
     /\ UNCHANGED <<now, batches, dailySummary, routerVars, saleVars, utilVars>>
     /\ UNCHANGED <<pcalls, pstarted, pfaults>>

NewSupplier(active) ==
  [isActive |-> active, currentDue |-> 0, totalPurchases |-> 0,
   lastPurchaseDate |-> {}]

NoCall ==
  [pc |-> "idle", op |-> "none", data |-> <<>>, saleId |-> 0,
   attempts |-> 0, runs |-> 0, execs |-> 0, line |-> 1,
   ws |-> <<>>, written |-> {}, stale |-> {},
   saleItems |-> <<>>, subtotal |-> 0, invoiceNumber |-> {}, newSale |-> {},
   wsale |-> <<>>,
   totalReturnAmount |-> 0,
   err |-> "none", lost |-> {}, retriedAfter |-> {}, effects |-> 0,
   didCommit |-> FALSE, emitted |-> {}]

PCallers == {"q1", "q2"}

NoPurchaseCall ==
  [pc |-> "idle", op |-> "none", id |-> 0, data |-> <<>>,
   loaded |-> <<>>, local |-> <<>>, line |-> 1, found |-> NoBatch,
   wrote |-> 0, err |-> "none", emitted |-> {}]

\* ----------------------------------------------- cache and pure functions
FCallers == {"f1", "f2"}

\* no value under the cache key
NoEnvelope == [present |-> FALSE, data |-> 0, cachedAt |-> 0, expiresAt |-> 0]

NoResult == [data |-> 0, fromCache |-> FALSE, isRevalidating |-> FALSE]

NoFetch ==
  [pc |-> "idle", ttlSeconds |-> 0, staleSeconds |-> {}, envelope |-> NoEnvelope,
   ageMs |-> 0, isStale |-> FALSE, freshData |-> 0, cachedAt |-> 0,
   result |-> NoResult, err |-> "none", bg |-> "none",
   loaderCalls |-> 0, onFreshData |-> 0]

NoUtil ==
  /\ cclock = 0
  /\ cache = NoEnvelope
  /\ fetches = [f \in FCallers |-> NoFetch]
  /\ fstarted = 0
  /\ arg = <<>>
  /\ ret = <<>>

NoSales ==
  /\ sales = <<>>
  /\ counterSeq = [d \in Days |-> 0]
  /\ customers = [c \in CustomerIds |->
        [totalPurchases |-> 0, loyaltyPoints |-> 0, dueAmount |-> 0,
         lastPurchaseDate |-> {}]]
  /\ counters = [k \in CounterIds |->
        [status |-> "active", isDefault |-> TRUE, lastSessionAt |-> {}]]
  /\ calls = [p \in Callers |-> NoCall]
  /\ started = 0

NoPurchases ==
  /\ purchases = <<>>
  /\ suppliers = [s \in SupplierIds |-> NewSupplier(s # "s3")]
  /\ dailySummary = [d \in Days |-> 0]
  /\ pLast = [op |-> "none", id |-> 0, ok |-> FALSE]
  /\ pcalls = [q \in PCallers |-> NoPurchaseCall]
  /\ pstarted = 0
  /\ pfaults = 0

PurchaseInit ==
  /\ now = 0
  /\ batches = [b \in BatchIds |-> NoBatch]
  /\ NoPurchases
  /\ RouterInit
  /\ NoSales
  /\ NoUtil

PurchaseNext ==
  \/ \E data \in CreatePurchaseInputs : createPurchase(data)
  \/ \E id \in PurchaseIds, data \in ReceivePurchaseInputs : receivePurchase(id, data)
  \/ \E id \in PurchaseIds, data \in RecordPaymentInputs : recordPayment(id, data)
  \/ \E id \in PurchaseIds : cancelPurchase(id)

SpecPurchase == PurchaseInit /\ [][PurchaseNext]_vars

\* ============================== purchase-service calls, step by step
\* The methods of PurchaseService await between their reads and writes and
\* open no transaction: each step below is the code between two awaits.
RaceCreateInputs ==
  { CPurchase("s1", ItemsA, 5, 2, 0, FALSE),
    CPurchase("s1", ItemsA, 5, 2, 10, TRUE),
    CPurchase("s3", ItemsA, 0, 0, 0, FALSE) }

RaceReceiveInputs ==
  { [items |-> <<>>, receivedDate |-> {}],
    [items |-> <<>>, receivedDate |-> {InvalidDate}] }

RacePaymentInputs ==
  { [amount |-> 10, paidAt |-> {}, hasPaymentMethod |-> TRUE],
    [amount |-> 17, paidAt |-> {}, hasPaymentMethod |-> TRUE] }

NoData == [items |-> <<>>, receivedDate |-> {}]

\* what purchase.save() stores: the paths that differ from the loaded
\* document and the forced ones are $set, pushed payments are $push-ed
savedPurchase(stored, loaded, local, forced) ==
  [f \in DOMAIN stored |->
     IF f = "payments"
     THEN stored.payments
          \o SubSeq(local.payments, Len(loaded.payments) + 1,
                    Len(local.payments))
     ELSE IF f \in forced \/ local[f] # loaded[f] THEN local[f]
     ELSE stored[f]]

\* the purchase document as receivePurchase holds it before purchase.save()
purchaseAfterReceive(p, data, today) ==
  [p EXCEPT !.items = receivedItems(p.items, data.items),
            !.status = statusAfterReceive(p),
            !.receivedDate = {IF data.receivedDate = {} THEN today
                              ELSE TheValue(data.receivedDate)}]

\* index of the first line from `line` on that the batch loop does not skip
RECURSIVE nextReceivedLine(_, _)
nextReceivedLine(items, line) ==
  IF line > Len(items) THEN line
  ELSE IF items[line].receivedQuantity + items[line].receivedFreeQuantity <= 0
  THEN nextReceivedLine(items, line + 1)
  ELSE line

PStay(q) ==
  /\ UNCHANGED <<now, pLast, pstarted, routerVars, saleVars, utilVars>>

pcallFailed(c, kind) == [c EXCEPT !.pc = "failed", !.err = kind]

pcallIdle(q) == pcalls[q].pc \in {"idle", "done", "failed"}

\* a storage write of caller q fails
storageFault(q) ==
  /\ pcalls[q].pc \in {"insert", "createSupplier", "batchWrite", "save",
                       "supplier", "summary"}
  /\ pfaults < MaxStorageFaults
  /\ pfaults' = pfaults + 1
  /\ pcalls' = [pcalls EXCEPT ![q] = pcallFailed(@, "storage")]
  /\ UNCHANGED <<batches, purchases, suppliers, dailySummary>>
  /\ PStay(q)

\* createPurchase up to generatePurchaseOrderNumber, lines 62-227
createPurchaseBegin(q, data) ==
  /\ pcallIdle(q)
  /\ pstarted < MaxPurchaseCalls
  /\ Len(purchases) < MaxPurchases
  /\ pstarted' = pstarted + 1
  /\ pcalls' = [pcalls EXCEPT ![q] =
       IF createPurchaseValid(data, suppliers)
       THEN [NoPurchaseCall EXCEPT !.pc = "insert", !.op = "create",
               !.local = newPurchase(data, purchases, now)]
       ELSE [NoPurchaseCall EXCEPT !.pc = "failed", !.op = "create",
               !.err = "validation"]]
  /\ UNCHANGED <<now, batches, purchases, suppliers, dailySummary, pLast,
                 pfaults, routerVars, saleVars, utilVars>>

\* Purchase.create, lines 229-256
createPurchaseInsert(q) ==
  LET c == pcalls[q]
  IN /\ c.pc = "insert"
     /\ IF \E i \in 1..Len(purchases) :
             purchases[i].purchaseOrderNumber = c.local.purchaseOrderNumber
        THEN /\ pcalls' = [pcalls EXCEPT ![q] = pcallFailed(c, "duplicate_key")]
             /\ UNCHANGED purchases
        ELSE /\ purchases' = Append(purchases, c.local)
             /\ pcalls' = [pcalls EXCEPT ![q] =
                  [c EXCEPT !.pc = "createSupplier", !.id = Len(purchases) + 1,
                            !.wrote = @ + 1]]
     /\ UNCHANGED <<batches, suppliers, dailySummary, pfaults>>
     /\ PStay(q)

\* Supplier.findByIdAndUpdate, lines 258-270
createPurchaseSupplier(q) ==
  LET c == pcalls[q]
  IN /\ c.pc = "createSupplier"
     /\ suppliers' = [suppliers EXCEPT ![c.local.supplierId] =
          supplierAfterCreate(@, c.local.grandTotal, c.local.dueAmount,
                              c.local.orderDate)]
     /\ pcalls' = [pcalls EXCEPT ![q] =
          [c EXCEPT !.pc = "done", !.wrote = @ + 1]]
     /\ UNCHANGED <<batches, purchases, dailySummary, pfaults>>
     /\ PStay(q)

\* the call is made; it awaits Purchase.findById
purchaseCallBegin(q, op, id, data) ==
  /\ pcallIdle(q)
  /\ pstarted < MaxPurchaseCalls
  /\ pstarted' = pstarted + 1
  /\ pcalls' = [pcalls EXCEPT ![q] =
       [NoPurchaseCall EXCEPT !.pc = "load", !.op = op, !.id = id,
                              !.data = data]]
  /\ UNCHANGED <<now, batches, purchases, suppliers, dailySummary, pLast,
                 pfaults, routerVars, saleVars, utilVars>>

receivePurchaseBegin(q, id, data) == purchaseCallBegin(q, "receive", id, data)

recordPaymentBegin(q, id, data) == purchaseCallBegin(q, "payment", id, data)

cancelPurchaseBegin(q, id) == purchaseCallBegin(q, "cancel", id, NoData)

\* findById has resolved: the checks, and the changes made to the loaded
\* document before the next await
purchaseLoaded(q) ==
  LET c == pcalls[q]
      p == purchases[c.id]
      ok == CASE c.op = "receive" ->
                   /\ receiveAllowed(p)
                   /\ c.data.receivedDate # {InvalidDate}
              [] c.op = "payment" -> paymentAllowed(p, c.data)
              [] OTHER -> cancelAllowed(p)
      local == CASE c.op = "receive" -> purchaseAfterReceive(p, c.data, now)
                 [] c.op = "payment" -> purchaseAfterPayment(p, c.data.amount)
                 [] OTHER -> purchaseAfterCancel(p)
      first == nextReceivedLine(local.items, 1)
  IN /\ c.pc = "load"
     /\ pcalls' = [pcalls EXCEPT ![q] =
          IF c.id \notin 1..Len(purchases) THEN pcallFailed(c, "not_found")
          ELSE IF ~ok THEN pcallFailed(c, "rejected")
          ELSE [c EXCEPT !.loaded = p, !.local = local, !.line = first,
                  !.pc = IF c.op = "receive" /\ first <= Len(local.items)
                         THEN "batchFind" ELSE "save"]]
     /\ UNCHANGED <<batches, purchases, suppliers, dailySummary, pfaults>>
     /\ PStay(q)

\* InventoryBatch.findOne of one pass of the batch loop, lines 514-517
receiveBatchFind(q) ==
  LET c == pcalls[q]
  IN /\ c.pc = "batchFind"
     /\ pcalls' = [pcalls EXCEPT ![q] =
          [c EXCEPT !.found = batches[c.local.items[c.line].batchNumber],
                    !.pc = "batchWrite"]]
     /\ UNCHANGED <<batches, purchases, suppliers, dailySummary, pfaults>>
     /\ PStay(q)

\* existingBatch.save() or InventoryBatch.create, lines 519-544
receiveBatchWrite(q) ==
  LET c == pcalls[q]
      item == c.local.items[c.line]
      b == item.batchNumber
      next == nextReceivedLine(c.local.items, c.line + 1)
  IN /\ c.pc = "batchWrite"
     /\ IF ~c.found.exists /\ batches[b].exists
        THEN /\ pcalls' = [pcalls EXCEPT ![q] = pcallFailed(c, "duplicate_key")]
             /\ UNCHANGED batches
        ELSE /\ batches' = [batches EXCEPT ![b] =
                  batchAfterReceipt(c.found, item, now)]
             /\ pcalls' = [pcalls EXCEPT ![q] =
                  [c EXCEPT !.wrote = @ + 1, !.line = next, !.found = NoBatch,
                            !.pc = IF next <= Len(c.local.items)
                                   THEN "batchFind" ELSE "save"]]
     /\ UNCHANGED <<purchases, suppliers, dailySummary, pfaults>>
     /\ PStay(q)

\* purchase.save(); the save of receivePurchase sets the items array, which
\* makes the save conditional on the document version: once the stored
\* document has changed it may be refused with a VersionError
purchaseSave(q) ==
  LET c == pcalls[q]
      forced == IF c.op = "receive" THEN {"items"} ELSE {}
  IN /\ c.pc = "save"
     /\ \/ /\ purchases' = [purchases EXCEPT ![c.id] =
                savedPurchase(@, c.loaded, c.local, forced)]
           /\ pcalls' = [pcalls EXCEPT ![q] =
                [c EXCEPT !.pc = "supplier", !.wrote = @ + 1]]
        \/ /\ c.op = "receive"
           /\ purchases[c.id] # c.loaded
           /\ pcalls' = [pcalls EXCEPT ![q] = pcallFailed(c, "version")]
           /\ UNCHANGED purchases
     /\ UNCHANGED <<batches, suppliers, dailySummary, pfaults>>
     /\ PStay(q)

\* Supplier.findByIdAndUpdate of receive, payment and cancel
purchaseSupplierUpdate(q) ==
  LET c == pcalls[q]
      sid == c.loaded.supplierId
  IN /\ c.pc = "supplier"
     /\ suppliers' = [suppliers EXCEPT ![sid] =
          CASE c.op = "receive" ->
                 [@ EXCEPT !.lastPurchaseDate = c.local.receivedDate]
            [] c.op = "payment" -> supplierAfterPayment(@, c.data.amount)
            [] OTHER -> supplierAfterCancel(@, c.loaded)]
     /\ pcalls' = [pcalls EXCEPT ![q] =
          [c EXCEPT !.wrote = @ + 1,
                    !.pc = IF c.op = "receive" THEN "summary" ELSE "done"]]
     /\ UNCHANGED <<batches, purchases, dailySummary, pfaults>>
     /\ PStay(q)

\* DailySummary.findOneAndUpdate of receivePurchase, lines 561-572
receiveSummary(q) ==
  LET c == pcalls[q]
  IN /\ c.pc = "summary"
     /\ dailySummary' = [dailySummary EXCEPT
          ![TheValue(c.local.receivedDate)] = @ + c.local.grandTotal]
     /\ pcalls' = [pcalls EXCEPT ![q] =
          [c EXCEPT !.wrote = @ + 1, !.pc = "cache"]]
     /\ UNCHANGED <<batches, purchases, suppliers, pfaults>>
     /\ PStay(q)

\* one redisManager.del of the Promise.all of receivePurchase rejects: the
\* error leaves the method after all its writes
receiveCacheFault(q) ==
  LET c == pcalls[q]
  IN /\ c.pc = "cache"
     /\ pcalls' = [pcalls EXCEPT ![q] = pcallFailed(c, "cache")]
     /\ UNCHANGED <<batches, purchases, suppliers, dailySummary, pfaults>>
     /\ PStay(q)

\* the four cache keys are deleted; the notifications are emitted and the
\* purchase is returned
receiveNotify(q) ==
  LET c == pcalls[q]
  IN /\ c.pc = "cache"
     /\ pcalls' = [pcalls EXCEPT ![q] =
          [c EXCEPT !.pc = "done",
                    !.emitted = {"purchase-received", "inventory-updated"}]]
     /\ UNCHANGED <<batches, purchases, suppliers, dailySummary, pfaults>>
     /\ PStay(q)

RaceIds == 1..MaxPurchases

RaceNext ==
  \/ \E q \in PCallers, data \in RaceCreateInputs : createPurchaseBegin(q, data)
  \/ \E q \in PCallers : createPurchaseInsert(q)
  \/ \E q \in PCallers : createPurchaseSupplier(q)
  \/ \E q \in PCallers, id \in RaceIds, data \in RaceReceiveInputs :
       receivePurchaseBegin(q, id, data)
  \/ \E q \in PCallers, id \in RaceIds, data \in RacePaymentInputs :
       recordPaymentBegin(q, id, data)
  \/ \E q \in PCallers, id \in RaceIds : cancelPurchaseBegin(q, id)
  \/ \E q \in PCallers : purchaseLoaded(q)
  \/ \E q \in PCallers : receiveBatchFind(q)
  \/ \E q \in PCallers : receiveBatchWrite(q)
  \/ \E q \in PCallers : purchaseSave(q)
  \/ \E q \in PCallers : purchaseSupplierUpdate(q)
  \/ \E q \in PCallers : receiveSummary(q)
  \/ \E q \in PCallers : receiveCacheFault(q)
  \/ \E q \in PCallers : receiveNotify(q)
  \/ \E q \in PCallers : storageFault(q)

SpecPurchaseRace == PurchaseInit /\ [][RaceNext]_vars

ConnInit ==
  /\ now = 0
  /\ batches = [b \in BatchIds |-> NoBatch]
  /\ NoPurchases
  /\ RouterInit
  /\ NoSales
  /\ NoUtil

ConnNext ==
  \/ \E g \in GetCallers, t \in TenantIds : getTenantConnectionLookup(g, t)
  \/ \E g \in GetCallers : getTenantConnectionCreated(g)
  \/ \E g \in GetCallers : getTenantConnectionFailed(g)
  \/ \E c \in 1..MaxConns : onDisconnected(c)
  \/ \E t \in TenantIds : closeTenantConnectionBegin(t)
  \/ \E t \in TenantIds, c \in 1..MaxConns :
       closeTenantConnectionEnd([tenant |-> t, conn |-> c])
  \/ cleanupInactiveConnectionsBegin
  \/ cleanupInactiveConnectionsClosed
  \/ ClockTick

SpecConn == ConnInit /\ [][ConnNext]_vars

\* ----------------------------------------------------- sale-service inputs
SLine(m, b, q) ==
  [medicineId |-> m, batchId |-> b, quantity |-> q, sellingPrice |-> {},
   discount |-> 0]

\* a line with a price override and a line discount
SLinePriced(m, b, q, price, discount) ==
  [medicineId |-> m, batchId |-> b, quantity |-> q, sellingPrice |-> {price},
   discount |-> discount]

CSale(its, method, paid, cust, ctr) ==
  [items |-> its, totalDiscount |-> 0, paymentMethod |-> method,
   amountPaid |-> paid, customerId |-> cust, counterId |-> ctr]

CSaleDiscounted(its, totalDiscount, method, paid, cust, ctr) ==
  [items |-> its, totalDiscount |-> totalDiscount, paymentMethod |-> method,
   amountPaid |-> paid, customerId |-> cust, counterId |-> ctr]

\* sales that commit, and one sale for each way createSale fails
CreateSaleInputs ==
  { CSale(<<SLine("m1", "b1", 2)>>, "cash", 100, {"c1"}, {}),
    CSaleDiscounted(<<SLinePriced("m1", "b1", 1, 60, 5), SLine("m1", "b2", 1)>>,
                    10, "cash", 200, {}, {"k1"}),
    CSale(<<SLine("m1", "b1", 2)>>, "credit", 0, {"c1"}, {}),
    CSale(<<SLine("m1", "b1", 1), SLine("m1", "b1", 3)>>, "cash", 500, {}, {}),
    CSale(<<SLine("m1", "b1", 1), SLine("m1", "b9", 1)>>, "cash", 500, {}, {}),
    CSale(<<SLine("m1", "b1", 1), SLine("m9", "b2", 1)>>, "cash", 500, {}, {}),
    CSale(<<SLine("m1", "b1", 1)>>, "cash", 10, {"c1"}, {}),
    CSale(<<SLine("m1", "b1", 1)>>, "cash", 50, {"c1"}, {"k9"}),
    CSale(<<SLine("m1", "b1", -1)>>, "cash", 0, {}, {}),
    CSale(<<>>, "cash", 0, {}, {}) }

RLine(i, q) == [saleItemIndex |-> i, quantity |-> q]

ReturnSaleInputs ==
  { [items |-> <<RLine(0, 1)>>],
    [items |-> <<RLine(0, 2)>>],
    [items |-> <<RLine(0, -1)>>],
    [items |-> <<RLine(1, 1)>>],
    [items |-> <<RLine(5, 1)>>] }

SaleIds == 1..MaxSaleCalls

\* ------------------------------------------------------ transaction steps
\* the attempt of caller p ends with an error of this kind: the transaction
\* is aborted and the error is on its way out of withTransaction
Fail(p, kind) ==
  LET c == calls[p]
      db2 == rolledBack(DB, c.ws)
  IN /\ batches' = db2.batches
     /\ counterSeq' = db2.counterSeq
     /\ sales' = db2.sales
     /\ customers' = db2.customers
     /\ counters' = db2.counters
     /\ calls' = [calls EXCEPT ![p] =
          [c EXCEPT !.pc = "error", !.err = kind, !.lost = c.written,
                    !.ws = <<>>, !.written = {}, !.stale = {},
                    !.saleItems = <<>>, !.subtotal = 0, !.invoiceNumber = {},
                    !.newSale = {}, !.wsale = <<>>, !.line = 1,
                    !.effects = @ + (IF db2 # DB THEN 1 ELSE 0)]]
     /\ UNCHANGED <<started, now, purchaseVars, utilVars, routerVars>>

Stay ==
  UNCHANGED <<now, batches, purchaseVars, utilVars, routerVars,
              counterSeq, sales, customers, counters, started>>

\* the closure starts (again) on a fresh snapshot
closureStart(c, db) ==
  [c EXCEPT !.pc = IF c.op = "createSale" THEN "lines" ELSE "rfind",
            !.execs = @ + 1, !.line = 1, !.ws = db,
            !.written = {}, !.stale = {}, !.err = "none", !.lost = {},
            !.saleItems = <<>>, !.subtotal = 0, !.invoiceNumber = {},
            !.newSale = {}, !.wsale = <<>>]

\* the caller has no call in progress
mayStart(p) == calls[p].pc \in {"idle", "done", "failed"}

startCreateSale(p, data) ==
  /\ mayStart(p)
  /\ started < MaxSaleCalls
  /\ started' = started + 1
  /\ calls' = [calls EXCEPT ![p] =
       IF createSaleInputValid(data)
       THEN closureStart([NoCall EXCEPT !.op = "createSale", !.data = data,
                                        !.attempts = 1, !.runs = 1], DB)
       ELSE [NoCall EXCEPT !.op = "createSale",
                           !.pc = "failed", !.err = "invalid_input"]]
  /\ UNCHANGED <<now, batches, purchaseVars, utilVars, routerVars,
                 counterSeq, sales, customers, counters>>

startReturnSale(p, saleId, data) ==
  /\ mayStart(p)
  /\ started < MaxSaleCalls
  /\ started' = started + 1
  /\ calls' = [calls EXCEPT ![p] =
       closureStart([NoCall EXCEPT !.op = "returnSale", !.data = data,
                                   !.saleId = saleId,
                                   !.attempts = 1, !.runs = 1], DB)]
  /\ UNCHANGED <<now, batches, purchaseVars, utilVars, routerVars,
                 counterSeq, sales, customers, counters>>

\* one pass of the line loop of createSale, lines 47-98
createSaleLine(p) ==
  LET c == calls[p]
      item == c.data.items[c.line]
      e == lineError(item, c.ws)
      batch == c.ws.batches[item.batchId]
      nb == batchAfterSale(batch, item.quantity, now)
      si == saleItemOf(item, batch)
  IN /\ c.pc = "lines"
     /\ IF e # "none" THEN Fail(p, e)
        ELSE IF ~batchSchemaValid(nb) THEN Fail(p, "schema_validation")
        ELSE IF nb # batch /\ writeConflict(calls, p, BatchKey(item.batchId))
        THEN Fail(p, "transient")
        ELSE /\ calls' = [calls EXCEPT ![p] =
                  [c EXCEPT !.ws.batches[item.batchId] = nb,
                            !.written = IF nb # batch
                                        THEN @ \cup {BatchKey(item.batchId)}
                                        ELSE @,
                            !.saleItems = Append(@, si),
                            !.subtotal = @ + si.total,
                            !.line = @ + 1,
                            !.pc = IF c.line = Len(c.data.items)
                                   THEN "invoice" ELSE "lines"]]
             /\ Stay

\* lines 100-111: totals, the payment check, generateInvoiceNumber
createSaleInvoice(p) ==
  LET c == calls[p]
      grandTotal == saleGrandTotal(c.subtotal, c.data.totalDiscount)
      seqs == sequenceAfterInc(c.ws.counterSeq, now)
  IN /\ c.pc = "invoice"
     /\ IF paymentInsufficient(c.data, grandTotal)
        THEN Fail(p, "insufficient_payment")
        ELSE IF writeConflict(calls, p, SeqKey(now)) THEN Fail(p, "transient")
        ELSE /\ calls' = [calls EXCEPT ![p] =
                  [c EXCEPT !.ws.counterSeq = seqs,
                            !.written = @ \cup {SeqKey(now)},
                            !.invoiceNumber = {invoiceNumberOf(now, seqs[now])},
                            !.pc = "finish"]]
             /\ Stay

\* lines 113-180: the counter, Sale.create, counter.save, the customer
createSaleFinish(p) ==
  LET c == calls[p]
      ks == activeCounter(c.data, c.ws.counters)
      k == TheValue(ks)
      sale == newSale(c.data, TheValue(c.invoiceNumber), c.saleItems,
                      c.subtotal, now)
      hasCustomer == c.data.customerId # {}
                     /\ TheValue(c.data.customerId) \in CustomerIds
      cu == TheValue(c.data.customerId)
  IN /\ c.pc = "finish"
     /\ IF ks = {} THEN Fail(p, "no_active_counter")
        ELSE IF ~saleSchemaValid(sale) THEN Fail(p, "schema_validation")
        ELSE IF \E i \in 1..Len(c.ws.sales) :
                  c.ws.sales[i].invoiceNumber = sale.invoiceNumber
        THEN Fail(p, "duplicate_key")
        ELSE IF writeConflict(calls, p, CounterKey(k)) THEN Fail(p, "transient")
        ELSE IF hasCustomer /\ writeConflict(calls, p, CustomerKey(cu))
        THEN Fail(p, "transient")
        ELSE /\ calls' = [calls EXCEPT ![p] =
                  [c EXCEPT
                     !.ws.counters[k].lastSessionAt = {now},
                     !.ws.customers = IF hasCustomer
                        THEN [@ EXCEPT ![cu] = customerAfterSale(
                                 @, c.data, sale.grandTotal, now)]
                        ELSE @,
                     !.written = @ \cup {CounterKey(k)}
                        \cup (IF hasCustomer THEN {CustomerKey(cu)} ELSE {}),
                     !.newSale = {sale},
                     !.pc = "commit"]]
             /\ Stay

\* lines 322-330: the head of the closure of returnSale
returnSaleFind(p) ==
  LET c == calls[p]
  IN /\ c.pc = "rfind"
     /\ IF c.saleId \notin 1..Len(c.ws.sales) THEN Fail(p, "not_found")
        ELSE IF c.ws.sales[c.saleId].status = "returned"
        THEN Fail(p, "already_returned")
        ELSE /\ calls' = [calls EXCEPT ![p] =
                  [c EXCEPT !.wsale = c.ws.sales[c.saleId],
                            !.pc = IF Len(c.data.items) = 0
                                   THEN "rfinish" ELSE "rlines"]]
             /\ Stay

\* one pass of the return loop, lines 332-371
returnSaleLine(p) ==
  LET c == calls[p]
      ri == c.data.items[c.line]
      e == returnLineError(ri, c.wsale, c.ws)
      idx == ri.saleItemIndex + 1
      saleItem == c.wsale.items[idx]
      batch == c.ws.batches[saleItem.batchId]
      nb == batchAfterReturn(batch, ri.quantity, now)
  IN /\ c.pc = "rlines"
     /\ IF e # "none" THEN Fail(p, e)
        ELSE IF ~batchSchemaValid(nb) THEN Fail(p, "schema_validation")
        ELSE IF nb # batch /\ writeConflict(calls, p, BatchKey(saleItem.batchId))
        THEN Fail(p, "transient")
        ELSE /\ calls' = [calls EXCEPT ![p] =
                  [c EXCEPT
                     !.ws.batches[saleItem.batchId] = nb,
                     !.written = IF nb # batch
                                 THEN @ \cup {BatchKey(saleItem.batchId)}
                                 ELSE @,
                     !.totalReturnAmount =
                         @ + returnAmountOf(saleItem, ri.quantity),
                     !.wsale.items[idx] =
                         saleItemAfterReturn(saleItem, ri.quantity),
                     !.line = @ + 1,
                     !.pc = IF c.line = Len(c.data.items)
                            THEN "rfinish" ELSE "rlines"]]
             /\ Stay

\* lines 373-392: status, grandTotal, sale.save, the customer
returnSaleFinish(p) ==
  LET c == calls[p]
      sale == saleAfterReturn(c.wsale, c.totalReturnAmount)
      hasCustomer == sale.customerId # {}
                     /\ TheValue(sale.customerId) \in CustomerIds
      cu == TheValue(sale.customerId)
  IN /\ c.pc = "rfinish"
     /\ IF ~saleSchemaValid(sale) THEN Fail(p, "schema_validation")
        ELSE IF writeConflict(calls, p, SaleKey(c.saleId))
        THEN Fail(p, "transient")
        ELSE IF hasCustomer /\ writeConflict(calls, p, CustomerKey(cu))
        THEN Fail(p, "transient")
        ELSE /\ calls' = [calls EXCEPT ![p] =
                  [c EXCEPT
                     !.ws.sales[c.saleId] = sale,
                     !.ws.customers = IF hasCustomer
                        THEN [@ EXCEPT ![cu] = customerAfterReturn(
                                 @, c.totalReturnAmount)]
                        ELSE @,
                     !.written = @ \cup {SaleKey(c.saleId)}
                        \cup (IF hasCustomer THEN {CustomerKey(cu)} ELSE {}),
                     !.wsale = sale,
                     !.pc = "commit"]]
             /\ Stay

\* the collections after the transaction with working copy ws has committed
\* its written documents
committed(db, ws, written, inserted) ==
  [batches |-> [b \in BatchIds |->
       IF BatchKey(b) \in written THEN ws.batches[b] ELSE db.batches[b]],
   counterSeq |-> [d \in Days |->
       IF SeqKey(d) \in written THEN ws.counterSeq[d] ELSE db.counterSeq[d]],
   sales |-> [i \in 1..Len(db.sales) |->
       IF SaleKey(i) \in written THEN ws.sales[i] ELSE db.sales[i]]
       \o (IF inserted = {} THEN <<>> ELSE <<TheValue(inserted)>>),
   customers |-> [cu \in CustomerIds |->
       IF CustomerKey(cu) \in written THEN ws.customers[cu]
       ELSE db.customers[cu]],
   counters |-> [k \in CounterIds |->
       IF CounterKey(k) \in written THEN ws.counters[k] ELSE db.counters[k]]]

\* commitTransaction succeeds: withTransaction returns
commitTransaction(p) ==
  LET c == calls[p]
      db2 == committed(DB, c.ws, c.written, c.newSale)
  IN /\ c.pc = "commit"
     /\ batches' = db2.batches
     /\ counterSeq' = db2.counterSeq
     /\ sales' = db2.sales
     /\ customers' = db2.customers
     /\ counters' = db2.counters
     /\ calls' = [q \in Callers |->
          IF q = p
          THEN [c EXCEPT !.pc = "cache", !.didCommit = TRUE,
                         !.ws = <<>>, !.written = {},
                         !.stale = {}, !.saleItems = <<>>, !.subtotal = 0,
                         !.invoiceNumber = {}, !.line = 1, !.data = <<>>,
                         !.wsale = <<>>, !.newSale = {},
                         !.attempts = 0, !.runs = 0, !.saleId = 0,
                         !.totalReturnAmount = 0,
                         !.effects = @ + (IF db2 # DB THEN 1 ELSE 0)]
          ELSE IF txnOpen(calls[q])
          THEN [calls[q] EXCEPT !.stale = @ \cup c.written]
          ELSE calls[q]]
     /\ UNCHANGED <<started, now, purchaseVars, utilVars, routerVars>>

\* commitTransaction fails with a transient error (election, timeout)
transientFault(p) ==
  /\ calls[p].pc = "commit"
  /\ Fail(p, "transient")

\* withTransaction runs the callback again
driverRetry(p) ==
  LET c == calls[p]
  IN /\ c.pc = "error"
     /\ driverRetries(c.err, c.runs)
     /\ calls' = [calls EXCEPT ![p] =
          closureStart([c EXCEPT !.runs = @ + 1,
                                 !.retriedAfter = @ \cup {c.err}], DB)]
     /\ Stay

\* the catch of createSale, lines 188-193: `continue`
appRetry(p) ==
  LET c == calls[p]
  IN /\ c.pc = "error"
     /\ appRetries(c.op, c.err, c.attempts)
     /\ calls' = [calls EXCEPT ![p] =
          closureStart([c EXCEPT !.attempts = @ + 1, !.runs = 1,
                                 !.retriedAfter = @ \cup {c.err}], DB)]
     /\ Stay

\* the call after its error is swallowed and the method carries on
thrown_Swallowed(c) ==
  [c EXCEPT !.pc = "cache", !.data = <<>>, !.saleId = 0,
            !.totalReturnAmount = 0, !.attempts = 0, !.runs = 0]

\* the call after its error is thrown out of the service method
thrown(c) ==
  [c EXCEPT !.pc = "failed", !.data = <<>>, !.saleId = 0,
            !.totalReturnAmount = 0, !.attempts = 0, !.runs = 0]

\* the error leaves the service method
surfaceError(p) ==
  LET c == calls[p]
  IN /\ c.pc = "error"
     /\ ~appRetries(c.op, c.err, c.attempts)
     /\ calls' = [calls EXCEPT ![p] = thrown(c)]
     /\ Stay

\* the events the method emits to the tenant's room before it returns
notificationsOf(op) ==
  IF op = "createSale" THEN {"sale-created", "inventory-updated"}
  ELSE {"sale-returned", "inventory-updated"}

\* redisManager.del of invalidateSalesCache throws: the error leaves the
\* method after the commit
cacheFault(p) ==
  LET c == calls[p]
  IN /\ c.pc = "cache"
     /\ calls' = [calls EXCEPT ![p] = [c EXCEPT !.pc = "failed",
                                                !.err = "cache"]]
     /\ Stay

\* both invalidations resolve (invalidateCacheByPattern logs its own
\* failures); the notifications are emitted and the method returns
notify(p) ==
  LET c == calls[p]
  IN /\ c.pc = "cache"
     /\ calls' = [calls EXCEPT ![p] =
          [c EXCEPT !.pc = "done", !.emitted = notificationsOf(c.op)]]
     /\ Stay

\* the wall clock passes midnight
Tick ==
  /\ now < MaxDay
  /\ now' = now + 1
  /\ UNCHANGED <<batches, purchaseVars, utilVars, routerVars, saleVars>>

StockedBatch(q, sp, expiry) ==
  [exists |-> TRUE, quantity |-> q, initialQuantity |-> q,
   purchasePrice |-> 10, sellingPrice |-> sp, expiryDate |-> expiry,
   status |-> batchStatus(q, expiry, 0)]

SaleInit ==
  /\ now = 0
  /\ batches = [b \in BatchIds |->
        IF b = "b1" THEN StockedBatch(3, 50, 60) ELSE StockedBatch(1, 100, 10)]
  /\ NoPurchases
  /\ RouterInit
  /\ NoSales
  /\ NoUtil

SaleNext ==
  \/ \E p \in Callers, data \in CreateSaleInputs : startCreateSale(p, data)
  \/ \E p \in Callers, id \in SaleIds, data \in ReturnSaleInputs :
       startReturnSale(p, id, data)
  \/ \E p \in Callers : createSaleLine(p)
  \/ \E p \in Callers : createSaleInvoice(p)
  \/ \E p \in Callers : createSaleFinish(p)
  \/ \E p \in Callers : returnSaleFind(p)
  \/ \E p \in Callers : returnSaleLine(p)
  \/ \E p \in Callers : returnSaleFinish(p)
  \/ \E p \in Callers : commitTransaction(p)
  \/ \E p \in Callers : transientFault(p)
  \/ \E p \in Callers : driverRetry(p)
  \/ \E p \in Callers : appRetry(p)
  \/ \E p \in Callers : surfaceError(p)
  \/ \E p \in Callers : cacheFault(p)
  \/ \E p \in Callers : notify(p)
  \/ Tick

SpecSale == SaleInit /\ [][SaleNext]_vars

\* ====================================================== inventory service
CBatch(m, q, sp, expiry) ==
  [medicineId |-> m, quantity |-> q, purchasePrice |-> 10,
   sellingPrice |-> sp, expiryDate |-> expiry]

AddBatchInputs ==
  { CBatch("m1", 2, 50, 60), CBatch("m1", 1, 50, 10), CBatch("m1", 2, 50, 0),
    CBatch("m1", 0, 50, 60), CBatch("m9", 2, 50, 60), CBatch("m1", 2, -1, 60) }

\* the fields of UpdateBatchDTO, each present or absent
UpdateBatchInputs ==
  [quantity : {{}, {0}, {5}, {-1}}, sellingPrice : {{}, {40}},
   status : {{}, {"active"}, {"expired"}}]

\* validate(...) and the lookups of addBatch, lines 277-303
addBatchValid(b, data, bs) ==
  /\ data.purchasePrice >= 0
  /\ data.sellingPrice >= 0
  /\ data.quantity >= 1
  /\ data.medicineId \in Medicines
  /\ ~bs[b].exists

\* InventoryBatch.create of addBatch; the pre('save') hook sets the status
addBatch(b, data) ==
  /\ batches' =
       IF addBatchValid(b, data, batches)
       THEN [batches EXCEPT ![b] =
              [exists |-> TRUE, quantity |-> data.quantity,
               initialQuantity |-> data.quantity,
               purchasePrice |-> data.purchasePrice,
               sellingPrice |-> data.sellingPrice,
               expiryDate |-> data.expiryDate,
               status |-> batchStatus(data.quantity, data.expiryDate, now)]]
       ELSE batches
  /\ UNCHANGED <<now, purchaseVars, utilVars, routerVars, saleVars>>

\* the validators that findByIdAndUpdate runs with runValidators: true
updateBatchValid(data) ==
  /\ \A q \in data.quantity : q >= 0
  /\ \A sp \in data.sellingPrice : sp >= 0

\* findByIdAndUpdate(batchId, {$set: data}): no document is loaded and no
\* save hook runs
batchAfterUpdate(batch, data) ==
  [batch EXCEPT
     !.quantity = IF data.quantity = {} THEN @ ELSE TheValue(data.quantity),
     !.sellingPrice = IF data.sellingPrice = {} THEN @
                      ELSE TheValue(data.sellingPrice),
     !.status = IF data.status = {} THEN @ ELSE TheValue(data.status)]

updateBatch(b, data) ==
  /\ batches' =
       IF batches[b].exists /\ updateBatchValid(data)
       THEN [batches EXCEPT ![b] = batchAfterUpdate(@, data)]
       ELSE batches
  /\ UNCHANGED <<now, purchaseVars, utilVars, routerVars, saleVars>>

InventoryInit ==
  /\ now = 0
  /\ batches = [b \in BatchIds |-> NoBatch]
  /\ NoPurchases
  /\ RouterInit
  /\ NoSales
  /\ NoUtil

InventoryNext ==
  \/ \E b \in BatchIds, data \in AddBatchInputs : addBatch(b, data)
  \/ \E b \in BatchIds, data \in UpdateBatchInputs : updateBatch(b, data)
  \/ Tick

SpecInventory == InventoryInit /\ [][InventoryNext]_vars

\* ============================================= stale-while-revalidate cache
\* the values the loader can produce
LoaderData == {1, 2}

\* redisManager.get: the envelope under the key, unless its TTL has run out
redisGet(stored, clock) ==
  IF stored.present /\ clock < stored.expiresAt THEN stored ELSE NoEnvelope

\* redisManager.set(cacheKey, payload, ttlSeconds)
redisSet(data, cachedAt, ttlSeconds, clock) ==
  [present |-> TRUE, data |-> data, cachedAt |-> cachedAt,
   expiresAt |-> clock + ttlSeconds]

\* line 129: staleSeconds = Math.floor(ttlSeconds / 2) unless given
staleSecondsOf(ttlSeconds, staleSeconds) ==
  IF staleSeconds = {} THEN ttlSeconds \div 2 ELSE TheValue(staleSeconds)

\* line 136: staleSeconds > 0 ? ageMs > staleSeconds * 1000 : false
isStaleAt(ageMs, staleSeconds) ==
  IF staleSeconds > 0 THEN ageMs > staleSeconds ELSE FALSE

UtilStay ==
  UNCHANGED <<now, batches, purchaseVars, routerVars, saleVars, arg, ret>>

\* the caller has no call and no background refresh in progress
fetchIdle(f) ==
  /\ fetches[f].pc \in {"idle", "done", "failed"}
  /\ fetches[f].bg \notin {"fetching", "set"}

\* swrFetch is called; it awaits redisManager.get, lines 124-132
swrFetchBegin(f, ttlSeconds, staleSeconds) ==
  /\ fetchIdle(f)
  /\ fstarted < MaxFetches
  /\ fstarted' = fstarted + 1
  /\ fetches' = [fetches EXCEPT ![f] =
       [NoFetch EXCEPT !.pc = "get", !.ttlSeconds = ttlSeconds,
                       !.staleSeconds = staleSeconds]]
  /\ UNCHANGED <<cclock, cache>>
  /\ UtilStay

\* lines 132-138: the envelope arrives; its age and staleness are computed
\* and recordMetric is awaited
swrFetchGet(f) ==
  LET c == fetches[f]
      envelope == redisGet(cache, cclock)
      ageMs == cclock - envelope.cachedAt
  IN /\ c.pc = "get"
     /\ fetches' = [fetches EXCEPT ![f] =
          IF envelope.present
          THEN [c EXCEPT !.pc = "hit", !.envelope = envelope,
                         !.ageMs = ageMs,
                         !.isStale = isStaleAt(ageMs,
                            staleSecondsOf(c.ttlSeconds, c.staleSeconds))]
          ELSE [c EXCEPT !.pc = "miss"]]
     /\ UNCHANGED <<cclock, cache, fstarted>>
     /\ UtilStay

\* lines 140-156: a fresh envelope is returned; a stale one is returned after
\* the background refresh has been started and has called the fetcher
swrFetchHit(f) ==
  LET c == fetches[f]
  IN /\ c.pc = "hit"
     /\ fetches' = [fetches EXCEPT ![f] =
          [c EXCEPT !.pc = "done",
                    !.result = [data |-> c.envelope.data, fromCache |-> TRUE,
                                isRevalidating |-> c.isStale],
                    !.bg = IF c.isStale THEN "fetching" ELSE "none",
                    !.loaderCalls = IF c.isStale THEN @ + 1 ELSE @]]
     /\ UNCHANGED <<cclock, cache, fstarted>>
     /\ UtilStay

\* lines 159-161: on a miss the fetcher is awaited and resolves
swrFetchLoaded(f, data) ==
  LET c == fetches[f]
  IN /\ c.pc = "miss"
     /\ fetches' = [fetches EXCEPT ![f] =
          [c EXCEPT !.pc = "store", !.freshData = data, !.cachedAt = cclock,
                    !.loaderCalls = @ + 1]]
     /\ UNCHANGED <<cclock, cache, fstarted>>
     /\ UtilStay

\* line 160: on a miss the fetcher rejects and swrFetch throws
swrFetchLoadFailed(f) ==
  LET c == fetches[f]
  IN /\ c.pc = "miss"
     /\ fetches' = [fetches EXCEPT ![f] =
          [c EXCEPT !.pc = "failed", !.err = "loader", !.loaderCalls = @ + 1]]
     /\ UNCHANGED <<cclock, cache, fstarted>>
     /\ UtilStay

\* lines 162-165: the envelope is stored, onFreshData runs, the data returns
swrFetchStore(f) ==
  LET c == fetches[f]
  IN /\ c.pc = "store"
     /\ cache' = redisSet(c.freshData, c.cachedAt, c.ttlSeconds, cclock)
     /\ fetches' = [fetches EXCEPT ![f] =
          [c EXCEPT !.pc = "done",
                    !.result = [data |-> c.freshData, fromCache |-> FALSE,
                                isRevalidating |-> FALSE],
                    !.onFreshData = @ + 1]]
     /\ UNCHANGED <<cclock, fstarted>>
     /\ UtilStay

\* lines 146-147: the fetcher of the background refresh resolves
refreshLoaded(f, data) ==
  LET c == fetches[f]
  IN /\ c.bg = "fetching"
     /\ fetches' = [fetches EXCEPT ![f] =
          [c EXCEPT !.bg = "set", !.freshData = data, !.cachedAt = cclock]]
     /\ UNCHANGED <<cclock, cache, fstarted>>
     /\ UtilStay

\* a refresh whose error escapes to the caller
refreshFailed_Raises(c) ==
  [c EXCEPT !.bg = "failed", !.pc = "failed", !.err = "loader"]

\* lines 151-153: the error of the refresh is caught and logged
refreshFailed(c) == [c EXCEPT !.bg = "failed"]

\* the fetcher of the background refresh rejects
refreshLoadFailed(f) ==
  /\ fetches[f].bg = "fetching"
  /\ fetches' = [fetches EXCEPT ![f] = refreshFailed(@)]
  /\ UNCHANGED <<cclock, cache, fstarted>>
  /\ UtilStay

\* lines 148-150: the refreshed envelope is stored and onFreshData runs
refreshStore(f) ==
  LET c == fetches[f]
  IN /\ c.bg = "set"
     /\ cache' = redisSet(c.freshData, c.cachedAt, c.ttlSeconds, cclock)
     /\ fetches' = [fetches EXCEPT ![f] =
          [c EXCEPT !.bg = "done", !.onFreshData = @ + 1]]
     /\ UNCHANGED <<cclock, fstarted>>
     /\ UtilStay

\* invalidateCacheByPattern deletes the key
redisDelPattern ==
  /\ cache.present
  /\ cache' = NoEnvelope
  /\ UNCHANGED <<cclock, fetches, fstarted>>
  /\ UtilStay

CacheTick ==
  /\ cclock < MaxCacheClock
  /\ cclock' = cclock + 1
  /\ UNCHANGED <<cache, fetches, fstarted>>
  /\ UtilStay

TtlInputs == {1, 4}
StaleInputs == {{}, {0}, {1}}

CacheInit ==
  /\ now = 0
  /\ batches = [b \in BatchIds |-> NoBatch]
  /\ NoPurchases
  /\ RouterInit
  /\ NoSales
  /\ NoUtil

CacheNext ==
  \/ \E f \in FCallers, ttl \in TtlInputs, stale \in StaleInputs :
       swrFetchBegin(f, ttl, stale)
  \/ \E f \in FCallers : swrFetchGet(f)
  \/ \E f \in FCallers : swrFetchHit(f)
  \/ \E f \in FCallers, data \in LoaderData : swrFetchLoaded(f, data)
  \/ \E f \in FCallers : swrFetchLoadFailed(f)
  \/ \E f \in FCallers : swrFetchStore(f)
  \/ \E f \in FCallers, data \in LoaderData : refreshLoaded(f, data)
  \/ \E f \in FCallers : refreshLoadFailed(f)
  \/ \E f \in FCallers : refreshStore(f)
  \/ redisDelPattern
  \/ CacheTick

SpecCache == CacheInit /\ [][CacheNext]_vars

\* ======================================================== cache key hash
\* Text is a sequence of character codes; the parameters use ASCII only, so a
\* code is also the character's UTF-8 byte.
Lower == <<"a", "b", "c", "d", "e", "f", "g", "h", "i", "j", "k", "l", "m",
           "n", "o", "p", "q", "r", "s", "t", "u", "v", "w", "x", "y", "z">>

DigitChars == <<"0", "1", "2", "3", "4", "5", "6", "7", "8", "9">>

Upper == <<"A", "B", "C", "D", "E", "F", "G", "H", "I", "J", "K", "L", "M",
           "N", "O", "P", "Q", "R", "S", "T", "U", "V", "W", "X", "Y", "Z">>

CharCode(ch) ==
  IF \E i \in 1..Len(Lower) : Lower[i] = ch
  THEN 96 + (CHOOSE i \in 1..Len(Lower) : Lower[i] = ch)
  ELSE IF \E i \in 1..Len(DigitChars) : DigitChars[i] = ch
  THEN 47 + (CHOOSE i \in 1..Len(DigitChars) : DigitChars[i] = ch)
  ELSE IF \E i \in 1..Len(Upper) : Upper[i] = ch
  THEN 64 + (CHOOSE i \in 1..Len(Upper) : Upper[i] = ch)
  ELSE CASE ch = " " -> 32
         [] ch = "\"" -> 34
         [] ch = "," -> 44
         [] ch = "-" -> 45
         [] ch = ":" -> 58
         [] ch = "[" -> 91
         [] ch = "\\" -> 92
         [] ch = "]" -> 93
         [] ch = "_" -> 95
         [] ch = "{" -> 123
         [] ch = "}" -> 125

\* the text spelled by a sequence of one-character strings
T(chars) == [i \in 1..Len(chars) |-> CharCode(chars[i])]

\* values of the language
Undefined == [t |-> "undefined"]
Null == [t |-> "null"]
NaN == [t |-> "nan"]
Num(n) == [t |-> "num", n |-> n]
Bool(b) == [t |-> "bool", b |-> b]
Str(chars) == [t |-> "str", s |-> T(chars)]
DateOf(ms) == [t |-> "date", ms |-> ms]
Arr(items) == [t |-> "arr", items |-> items]
\* an object: its own enumerable properties as <<key, value>>, in insertion
\* order
Obj(entries) == [t |-> "obj", entries |-> entries]
E(chars, value) == <<T(chars), value>>

\* the position of a character in the collation order of localeCompare:
\* punctuation, then digits, then letters
collationRank(code) == IF code \in 48..57 \/ code \in 97..122 THEN code
                       ELSE code - 128

RECURSIVE localeCompare(_, _)
\* a.localeCompare(b) on such keys: negative, zero or positive
localeCompare(a, b) ==
  IF a = <<>> /\ b = <<>> THEN 0
  ELSE IF a = <<>> THEN -1
  ELSE IF b = <<>> THEN 1
  ELSE IF collationRank(Head(a)) < collationRank(Head(b)) THEN -1
  ELSE IF collationRank(Head(a)) > collationRank(Head(b)) THEN 1
  ELSE localeCompare(Tail(a), Tail(b))

RECURSIVE insertEntry(_, _)
\* the sorted entries with one more entry, after those that do not compare
\* greater (the sort is stable)
insertEntry(sorted, entry) ==
  IF sorted = <<>> THEN <<entry>>
  ELSE IF localeCompare(Head(sorted)[1], entry[1]) <= 0
  THEN <<Head(sorted)>> \o insertEntry(Tail(sorted), entry)
  ELSE <<entry>> \o sorted

RECURSIVE sortedByKey(_)
\* Array.prototype.sort with the key comparator
sortedByKey(entries) ==
  IF entries = <<>> THEN <<>>
  ELSE insertEntry(sortedByKey(SubSeq(entries, 1, Len(entries) - 1)),
                   entries[Len(entries)])

\* entries left in insertion order
sortEntries_Unsorted(entries) == entries

\* lines 104-106: Object.entries(value).sort(([a], [b]) => a.localeCompare(b))
sortEntries(entries) == sortedByKey(entries)

RECURSIVE join(_, _)
\* Array.prototype.join
join(texts, sep) ==
  IF texts = <<>> THEN <<>>
  ELSE IF Len(texts) = 1 THEN Head(texts)
  ELSE Head(texts) \o sep \o join(Tail(texts), sep)

RECURSIVE quoteChars(_)
\* the escapes JSON.stringify applies inside a string
quoteChars(text) ==
  IF text = <<>> THEN <<>>
  ELSE (IF Head(text) \in {34, 92} THEN <<92, Head(text)>> ELSE <<Head(text)>>)
       \o quoteChars(Tail(text))

\* JSON.stringify of a primitive
jsonStringify(value) ==
  CASE value.t \in {"null", "nan"} -> T(<<"n", "u", "l", "l">>)
    [] value.t = "bool" -> IF value.b THEN T(<<"t", "r", "u", "e">>)
                           ELSE T(<<"f", "a", "l", "s", "e">>)
    [] value.t = "num" ->
         (IF value.n < 0 THEN <<45>> ELSE <<>>)
         \o [i \in 1..Len(Digits(IF value.n < 0 THEN -value.n ELSE value.n))
               |-> 48 + Digits(IF value.n < 0 THEN -value.n ELSE value.n)[i]]
    [] value.t = "str" -> <<34>> \o quoteChars(value.s) \o <<34>>

RECURSIVE stableStringify(_)
\* lines 95-109
stableStringify(value) ==
  IF value.t \in {"null", "nan", "bool", "num", "str"}
  THEN jsonStringify(value)
  ELSE IF value.t = "arr"
  THEN <<91>>
       \o join([i \in 1..Len(value.items) |->
                  stableStringify(value.items[i])], <<44>>)
       \o <<93>>
  ELSE LET entries == IF value.t = "date" THEN <<>> ELSE sortEntries(value.entries)
       IN <<123>>
          \o join([i \in 1..Len(entries) |->
                     <<34>> \o entries[i][1] \o <<34, 58>>
                     \o stableStringify(entries[i][2])], <<44>>)
          \o <<125>>

\* the base64url alphabet
Base64Url ==
  <<"A", "B", "C", "D", "E", "F", "G", "H", "I", "J", "K", "L", "M", "N", "O",
    "P", "Q", "R", "S", "T", "U", "V", "W", "X", "Y", "Z", "a", "b", "c", "d",
    "e", "f", "g", "h", "i", "j", "k", "l", "m", "n", "o", "p", "q", "r", "s",
    "t", "u", "v", "w", "x", "y", "z", "0", "1", "2", "3", "4", "5", "6", "7",
    "8", "9", "-", "_">>

RECURSIVE base64url(_)
\* Buffer.from(serialized).toString('base64url'): three bytes give four
\* characters, a rest of one or two bytes gives two or three, with no padding
base64url(bytes) ==
  IF bytes = <<>> THEN <<>>
  ELSE IF Len(bytes) = 1
  THEN <<Base64Url[bytes[1] \div 4 + 1], Base64Url[(bytes[1] % 4) * 16 + 1]>>
  ELSE IF Len(bytes) = 2
  THEN <<Base64Url[bytes[1] \div 4 + 1],
         Base64Url[(bytes[1] % 4) * 16 + bytes[2] \div 16 + 1],
         Base64Url[(bytes[2] % 16) * 4 + 1]>>
  ELSE <<Base64Url[bytes[1] \div 4 + 1],
         Base64Url[(bytes[1] % 4) * 16 + bytes[2] \div 16 + 1],
         Base64Url[(bytes[2] % 16) * 4 + bytes[3] \div 64 + 1],
         Base64Url[(bytes[3] % 64) + 1]>>
       \o base64url(SubSeq(bytes, 4, Len(bytes)))

\* lines 111-114
buildCacheHash(input) == base64url(stableStringify(input))

Limit == <<"l", "i", "m", "i", "t">>
Search == <<"s", "e", "a", "r", "c", "h">>
Active == <<"a", "c", "t", "i", "v", "e">>

\* parameter objects: the same properties in different insertion orders,
\* objects that differ in a key or a value, nested objects and arrays
HashInputs ==
  { Obj(<<E(Limit, Num(10)), E(Search, Str(<<"a", "b", "c">>)),
          E(Active, Bool(TRUE))>>),
    Obj(<<E(Search, Str(<<"a", "b", "c">>)), E(Active, Bool(TRUE)),
          E(Limit, Num(10))>>),
    Obj(<<E(Limit, Num(10)), E(Search, Str(<<"a", "b", "c">>))>>),
    Obj(<<E(Limit, Num(10)), E(Search, Str(<<"a", "b", "c", "d">>))>>),
    Obj(<<E(<<"a">>, Num(1)), E(<<"b">>, Num(2))>>),
    Obj(<<E(<<"b">>, Num(2)), E(<<"a">>, Num(1))>>),
    Obj(<<E(<<"a">>, Num(1))>>),
    Obj(<<E(<<"a">>, Num(2))>>),
    Obj(<<E(<<"a">>, Str(<<"1">>))>>),
    Obj(<<E(<<"a", "\"", ":", "1", ",", "\"", "b">>, Num(2))>>),
    Obj(<<E(<<"f">>, Obj(<<E(<<"a">>, Num(1)), E(<<"b">>, Num(2))>>)),
          E(<<"q">>, Str(<<"x">>))>>),
    Obj(<<E(<<"q">>, Str(<<"x">>)),
          E(<<"f">>, Obj(<<E(<<"b">>, Num(2)), E(<<"a">>, Num(1))>>))>>),
    Obj(<<E(<<"i", "d", "s">>, Arr(<<Num(1), Num(2)>>))>>),
    Obj(<<E(<<"i", "d", "s">>, Arr(<<Num(2), Num(1)>>))>>),
    Obj(<<E(Limit, NaN)>>),
    Obj(<<E(Limit, Null)>>),
    Obj(<<E(<<"f", "r", "o", "m">>, DateOf(1))>>),
    Obj(<<E(<<"f", "r", "o", "m">>, DateOf(2))>>),
    Obj(<<>>) }

\* the two parameter objects are hashed
buildCacheHashApply ==
  /\ ret = <<>>
  /\ ret' = <<buildCacheHash(arg[1]), buildCacheHash(arg[2])>>
  /\ UNCHANGED <<now, batches, purchaseVars, routerVars, saleVars>>
  /\ UNCHANGED <<cclock, cache, fetches, fstarted, arg>>

HashInit ==
  /\ now = 0
  /\ batches = [b \in BatchIds |-> NoBatch]
  /\ NoPurchases
  /\ RouterInit
  /\ NoSales
  /\ cclock = 0
  /\ cache = NoEnvelope
  /\ fetches = [f \in FCallers |-> NoFetch]
  /\ fstarted = 0
  /\ arg \in HashInputs \X HashInputs
  /\ ret = <<>>

HashNext == buildCacheHashApply

SpecHash == HashInit /\ [][HashNext]_vars

\* ================================================ purchase payload mapper
\* ParseResult: an optional value and an optional error
Parsed(v) == [value |-> {v}, error |-> {}]
NoValue == [value |-> {}, error |-> {}]
ParseError(fieldLabel, problem) ==
  [value |-> {}, error |-> {[label |-> fieldLabel, problem |-> problem]}]

RECURSIVE trimStart(_)
trimStart(text) ==
  IF text # <<>> /\ Head(text) = 32 THEN trimStart(Tail(text)) ELSE text

RECURSIVE trimEnd(_)
trimEnd(text) ==
  IF text # <<>> /\ text[Len(text)] = 32
  THEN trimEnd(SubSeq(text, 1, Len(text) - 1)) ELSE text

\* String.prototype.trim
trim(text) == trimEnd(trimStart(text))

\* parsers.ts lines 21-22
isBlank(value) ==
  \/ value.t \in {"undefined", "null"}
  \/ value.t = "str" /\ trim(value.s) = <<>>

\* parsers.ts lines 26-47
normalizeString(value, fieldLabel, required) ==
  IF isBlank(value)
  THEN IF required THEN ParseError(fieldLabel, "is required") ELSE NoValue
  ELSE IF value.t # "str" THEN ParseError(fieldLabel, "must be a string")
  ELSE IF trim(value.s) = <<>> /\ required
  THEN ParseError(fieldLabel, "is required")
  ELSE IF trim(value.s) # <<>> THEN Parsed(trim(value.s)) ELSE NoValue

\* .replace(/,/g, '').replace(/[^\d.-]/g, '')
digitsAndSigns(text) ==
  SelectSeq(text, LAMBDA c : c \in 48..57 \/ c \in {45, 46})

RECURSIVE digitsValue(_)
digitsValue(text) ==
  IF text = <<>> THEN 0
  ELSE 10 * digitsValue(SubSeq(text, 1, Len(text) - 1))
       + (text[Len(text)] - 48)

\* Number(text) for a text of digits and signs: {} stands for NaN; texts with
\* a decimal point are not among the inputs
numberOfText(text) ==
  IF text = <<>> THEN {0}
  ELSE IF \A i \in 1..Len(text) : text[i] \in 48..57 THEN {digitsValue(text)}
  ELSE IF /\ Head(text) = 45 /\ Len(text) > 1
          /\ \A i \in 2..Len(text) : text[i] \in 48..57
  THEN {0 - digitsValue(Tail(text))}
  ELSE {}

\* parsers.ts lines 57-67: the number a value stands for, {} when it is not
\* finite
numericOf(value) ==
  CASE value.t = "num" -> {value.n}
    [] value.t = "nan" -> {}
    [] value.t = "str" -> numberOfText(digitsAndSigns(trim(value.s)))
    [] value.t = "bool" -> {IF value.b THEN 1 ELSE 0}
    [] value.t = "date" -> {value.ms}
    [] OTHER -> {}

\* parsers.ts lines 49-86; every number of the model is whole, so the
\* integer check passes
toNumber(value, fieldLabel, required, min) ==
  IF isBlank(value)
  THEN IF required THEN ParseError(fieldLabel, "is required") ELSE NoValue
  ELSE IF numericOf(value) = {}
  THEN ParseError(fieldLabel, "must be a valid number")
  ELSE IF \E m \in min : TheValue(numericOf(value)) < m
  THEN ParseError(fieldLabel, "must be at least")
  ELSE Parsed(TheValue(numericOf(value)))

\* parsers.ts lines 88-97
toPositiveInteger(value, fieldLabel) == toNumber(value, fieldLabel, FALSE, {1})

\* parsers.ts lines 99-108
toNonNegativeInteger(value, fieldLabel) ==
  toNumber(value, fieldLabel, FALSE, {0})

\* parsers.ts lines 110-121; the rounding to two decimals leaves a whole
\* amount as it is
toMoney(value, fieldLabel) ==
  LET result == toNumber(value, fieldLabel, FALSE, {0})
  IN IF result.error # {} THEN result
     ELSE IF result.value = {} THEN Parsed(0)
     ELSE result

\* the date texts the Date constructor understands, with their day numbers
KnownDates ==
  { <<T(<<"2", "0", "2", "4", "-", "0", "1", "-", "1", "0">>), 10>>,
    <<T(<<"2", "0", "2", "5", "-", "1", "2", "-", "3", "1">>), 731>> }

\* new Date(value).getTime(): {} when it is NaN
dateOf(value) ==
  CASE value.t = "date" -> {value.ms}
    [] value.t = "num" -> {value.n}
    [] value.t = "str" -> {d[2] : d \in {k \in KnownDates : k[1] = value.s}}
    [] OTHER -> {}

\* parsers.ts lines 123-137
toDateUTC(value, fieldLabel, required) ==
  IF isBlank(value)
  THEN IF required THEN ParseError(fieldLabel, "is required") ELSE NoValue
  ELSE IF dateOf(value) = {}
  THEN ParseError(fieldLabel, "must be a valid date")
  ELSE Parsed(TheValue(dateOf(value)))

\* Object.values(PaymentMethod)
PAYMENT_METHODS ==
  { T(<<"c", "a", "s", "h">>), T(<<"c", "a", "r", "d">>),
    T(<<"m", "o", "b", "i", "l", "e", "_", "b", "a", "n", "k", "i", "n", "g">>),
    T(<<"c", "r", "e", "d", "i", "t">>) }

\* String.prototype.toLowerCase
toLowerCase(text) ==
  [i \in 1..Len(text) |-> IF text[i] \in 65..90 THEN text[i] + 32 ELSE text[i]]

\* the entries a parse result adds to fieldErrors under a key
entryOf(key, result) == {[key |-> key, error |-> e] : e \in result.error}

\* a line item of the payload
RawLine(medicineId, batchNumber, quantity, purchasePrice, sellingPrice, mrp,
        expiryDate, notes) ==
  [t |-> "line", medicineId |-> medicineId, batchNumber |-> batchNumber,
   quantity |-> quantity, freeQuantity |-> Undefined,
   purchasePrice |-> purchasePrice, sellingPrice |-> sellingPrice,
   mrp |-> mrp, expiryDate |-> expiryDate, alertThreshold |-> Undefined,
   notes |-> notes]

\* mapper.ts lines 78-180: one pass of rawItems.forEach
mapLine(item, index) ==
  LET prefix == "items." \o ToString(index)
  IN IF item.t # "line"
     THEN [errors |-> {[key |-> prefix,
                        error |-> [label |-> "Line",
                                   problem |-> "Invalid line item payload"]]},
           items |-> <<>>]
     ELSE
       LET medicineIdResult == normalizeString(item.medicineId, "Medicine", TRUE)
           batchResult ==
             normalizeString(item.batchNumber, "Batch number", TRUE)
           quantityResult == toPositiveInteger(item.quantity, "Quantity")
           freeQuantityResult ==
             toNonNegativeInteger(item.freeQuantity, "Free quantity")
           purchasePriceResult == toMoney(item.purchasePrice, "Purchase price")
           sellingPriceResult == toMoney(item.sellingPrice, "Selling price")
           mrpResult == toMoney(item.mrp, "MRP")
           expiryDateResult == toDateUTC(item.expiryDate, "Expiry date", TRUE)
           alertThresholdResult ==
             toNonNegativeInteger(item.alertThreshold, "Alert threshold")
           notesItemResult == normalizeString(item.notes, "Item notes", FALSE)
       IN [errors |->
             entryOf(prefix \o ".medicineId", medicineIdResult)
             \cup entryOf(prefix \o ".batchNumber", batchResult)
             \cup entryOf(prefix \o ".quantity", quantityResult)
             \cup entryOf(prefix \o ".freeQuantity", freeQuantityResult)
             \cup entryOf(prefix \o ".purchasePrice", purchasePriceResult)
             \cup entryOf(prefix \o ".sellingPrice", sellingPriceResult)
             \cup entryOf(prefix \o ".mrp", mrpResult)
             \cup entryOf(prefix \o ".expiryDate", expiryDateResult)
             \cup entryOf(prefix \o ".alertThreshold", alertThresholdResult)
             \cup entryOf(prefix \o ".notes", notesItemResult),
           items |->
             IF /\ medicineIdResult.error = {} /\ batchResult.error = {}
                /\ quantityResult.error = {} /\ purchasePriceResult.error = {}
                /\ sellingPriceResult.error = {} /\ mrpResult.error = {}
                /\ expiryDateResult.error = {}
                /\ freeQuantityResult.error = {}
                /\ alertThresholdResult.error = {}
             THEN << [medicineId |-> medicineIdResult.value,
                      batchNumber |-> batchResult.value,
                      quantity |-> quantityResult.value,
                      freeQuantity |-> IF freeQuantityResult.value = {}
                                       THEN {0} ELSE freeQuantityResult.value,
                      purchasePrice |-> purchasePriceResult.value,
                      sellingPrice |-> sellingPriceResult.value,
                      mrp |-> mrpResult.value,
                      expiryDate |-> expiryDateResult.value,
                      alertThreshold |-> alertThresholdResult.value,
                      notes |-> notesItemResult.value] >>
             ELSE <<>>]

RECURSIVE mapLines(_, _)
\* the lines from index on: their errors and the normalized items
mapLines(rawItems, index) ==
  IF index >= Len(rawItems)
  THEN [errors |-> {}, items |-> <<>>]
  ELSE LET one == mapLine(rawItems[index + 1], index)
           rest == mapLines(rawItems, index + 1)
       IN [errors |-> one.errors \cup rest.errors,
           items |-> one.items \o rest.items]

\* orderDate: payload?.orderDate ?? new Date()
orderDateOrNow(value, today) ==
  IF value.t \in {"undefined", "null"} THEN DateOf(today) ELSE value

\* mapper.ts lines 25-27: the result of the supplier invoice number is kept,
\* its error is never looked at
invoiceErrors(result) == {}

\* mapper.ts lines 14-214
mapCreatePurchaseDTO(payload, today) ==
  LET supplierResult == normalizeString(payload.supplierId, "Supplier", TRUE)
      supplierInvoiceResult ==
        normalizeString(payload.supplierInvoiceNumber, "Supplier invoice",
                        FALSE)
      orderDateResult ==
        toDateUTC(orderDateOrNow(payload.orderDate, today), "Order date", TRUE)
      expectedDeliveryResult ==
        toDateUTC(payload.expectedDeliveryDate, "Expected delivery date", FALSE)
      discountResult == toMoney(payload.discount, "Discount")
      taxResult == toMoney(payload.tax, "Tax")
      amountPaidResult == toMoney(payload.amountPaid, "Amount paid")
      notesResult == normalizeString(payload.notes, "Notes", FALSE)
      isArray == payload.items.t = "arr"
      rawItems == IF isArray THEN payload.items.items ELSE <<>>
      lines == mapLines(rawItems, 0)
      truthy == /\ payload.initialPaymentMethod.t = "str"
                /\ payload.initialPaymentMethod.s # <<>>
      method == IF truthy THEN toLowerCase(payload.initialPaymentMethod.s)
                ELSE <<>>
      fieldErrors ==
        entryOf("supplierId", supplierResult)
        \cup invoiceErrors(supplierInvoiceResult)
        \cup entryOf("orderDate", orderDateResult)
        \cup entryOf("expectedDeliveryDate", expectedDeliveryResult)
        \cup entryOf("discount", discountResult)
        \cup entryOf("tax", taxResult)
        \cup entryOf("amountPaid", amountPaidResult)
        \cup entryOf("notes", notesResult)
        \cup (IF ~isArray \/ rawItems = <<>>
              THEN {[key |-> "items",
                     error |-> [label |-> "Items",
                                problem |-> "At least one medicine line is required"]]}
              ELSE {})
        \cup lines.errors
        \cup (IF truthy /\ method \notin PAYMENT_METHODS
              THEN {[key |-> "initialPaymentMethod",
                     error |-> [label |-> "Payment method",
                                problem |-> "is not supported"]]}
              ELSE {})
      amountPaid == IF amountPaidResult.value = {} THEN 0
                    ELSE TheValue(amountPaidResult.value)
  IN IF fieldErrors # {}
     THEN [thrown |-> TRUE, errors |-> fieldErrors, dto |-> <<>>]
     ELSE [thrown |-> FALSE, errors |-> {},
           dto |-> [supplierId |-> supplierResult.value,
                    supplierInvoiceNumber |-> supplierInvoiceResult.value,
                    orderDate |-> orderDateResult.value,
                    expectedDeliveryDate |-> expectedDeliveryResult.value,
                    items |-> lines.items,
                    discount |-> discountResult.value,
                    tax |-> taxResult.value,
                    amountPaid |-> amountPaid,
                    initialPaymentMethod |->
                      IF amountPaid > 0 /\ truthy THEN {method} ELSE {},
                    notes |-> notesResult.value]]

GoodLine ==
  RawLine(Str(<<"m", "1">>), Str(<<" ", "B", "N", "-", "1", " ">>),
        Str(<<"5">>), Num(120), Str(<<"1", "5", "0">>), Num(160),
        Str(<<"2", "0", "2", "5", "-", "1", "2", "-", "3", "1">>), Undefined)

\* the line of the unit test
BadLine ==
  RawLine(Str(<<>>), Str(<<>>), Num(0), Num(-5), Str(<<"a", "b", "c">>), Null,
        Str(<<"i", "n", "v", "a", "l", "i", "d", "-", "d", "a", "t", "e">>),
        Undefined)

BadNotesLine ==
  RawLine(Str(<<"m", "1">>), Str(<<"b", "1">>), Num(2), Num(10), Num(12),
        Num(15), DateOf(731), Num(7))

MapperInputs ==
  [supplierId : {Str(<<"s", "1">>), Str(<<>>), Num(5)},
   supplierInvoiceNumber : {Undefined, Str(<<"i", "n", "v">>), Num(123)},
   orderDate : {Undefined,
                Str(<<"2", "0", "2", "4", "-", "0", "1", "-", "1", "0">>),
                Str(<<"a", "b", "c">>)},
   expectedDeliveryDate : {Undefined},
   discount : {Undefined, Num(5), Num(-1)},
   tax : {Undefined},
   amountPaid : {Undefined, Str(<<"2", "0">>)},
   notes : {Undefined},
   items : {Undefined, Arr(<<>>), Arr(<<GoodLine>>), Arr(<<BadLine>>),
            Arr(<<GoodLine, BadNotesLine>>), Arr(<<GoodLine, Num(7)>>)},
   initialPaymentMethod : {Undefined, Str(<<"C", "a", "s", "h">>),
                           Str(<<"b", "a", "r", "t", "e", "r">>)}]

\* the payload is mapped
mapCreatePurchaseDTOApply ==
  /\ ret = <<>>
  /\ ret' = mapCreatePurchaseDTO(arg, now)
  /\ UNCHANGED <<now, batches, purchaseVars, routerVars, saleVars>>
  /\ UNCHANGED <<cclock, cache, fetches, fstarted, arg>>

MapperInit ==
  /\ now = 0
  /\ batches = [b \in BatchIds |-> NoBatch]
  /\ NoPurchases
  /\ RouterInit
  /\ NoSales
  /\ cclock = 0
  /\ cache = NoEnvelope
  /\ fetches = [f \in FCallers |-> NoFetch]
  /\ fstarted = 0
  /\ arg \in MapperInputs
  /\ ret = <<>>

MapperNext == mapCreatePurchaseDTOApply

SpecMapper == MapperInit /\ [][MapperNext]_vars

\* ======================================================== purchase claims
RECURSIVE SupplierSum(_, _, _)
\* sum of field f over the non-cancelled purchases of supplier s
SupplierSum(ps, s, f) ==
  IF ps = <<>> THEN 0
  ELSE (IF Head(ps).supplierId = s /\ Head(ps).status # "cancelled"
        THEN Head(ps)[f] ELSE 0) + SupplierSum(Tail(ps), s, f)

RECURSIVE ItemsReceivedInto(_, _)
ItemsReceivedInto(items, b) ==
  IF items = <<>> THEN 0
  ELSE (IF Head(items).batchNumber = b
        THEN Head(items).receivedQuantity + Head(items).receivedFreeQuantity
        ELSE 0) + ItemsReceivedInto(Tail(items), b)

RECURSIVE ReceivedInto(_, _)
\* units the received purchases have brought into batch b
ReceivedInto(ps, b) ==
  IF ps = <<>> THEN 0
  ELSE (IF Head(ps).status \in {"received", "completed"}
        THEN ItemsReceivedInto(Head(ps).items, b) ELSE 0)
       + ReceivedInto(Tail(ps), b)

C6_StockCountedOnce ==
  \A b \in BatchIds : batches[b].quantity = ReceivedInto(purchases, b)

C6_SecondReceiveRejected ==
  (/\ pLast'.op = "receive"
   /\ pLast'.id \in 1..Len(purchases)
   /\ purchases[pLast'.id].status # "ordered")
  => /\ ~pLast'.ok
     /\ UNCHANGED <<batches, purchases, suppliers, dailySummary>>

\* C6: a receivePurchase call on a purchase whose status has left ORDERED is
\* rejected and changes no InventoryBatch, Purchase, Supplier or DailySummary,
\* so every batch holds the lines of each received purchase exactly once.
C6_ReceiveOnce == []C6_StockCountedOnce /\ [][C6_SecondReceiveRejected]_vars

C6_Witness ==
  /\ pLast.op = "receive" /\ ~pLast.ok
  /\ pLast.id \in 1..Len(purchases)
  /\ purchases[pLast.id].status \in {"received", "completed"}
  /\ \E b \in BatchIds : batches[b].quantity > 0

\* C7: every supplier's currentDue is the sum of dueAmount, and its
\* totalPurchases the sum of grandTotal, over its non-cancelled purchases.
C7_SupplierAggregates ==
  \A s \in SupplierIds :
    /\ suppliers[s].currentDue = SupplierSum(purchases, s, "dueAmount")
    /\ suppliers[s].totalPurchases = SupplierSum(purchases, s, "grandTotal")

C7_Witness ==
  \E i, j \in 1..Len(purchases) :
    /\ i # j
    /\ purchases[i].supplierId = purchases[j].supplierId
    /\ purchases[i].status = "cancelled" /\ purchases[i].amountPaid > 0
    /\ purchases[j].status = "received" /\ Len(purchases[j].payments) > 0
    /\ suppliers[purchases[j].supplierId].currentDue > 0

\* C8: every purchase has dueAmount = max(0, grandTotal - amountPaid) and
\* 0 <= amountPaid <= grandTotal.
C8_DueAmount ==
  \A i \in 1..Len(purchases) :
    LET p == purchases[i]
    IN /\ p.dueAmount = (IF p.grandTotal - p.amountPaid > 0
                         THEN p.grandTotal - p.amountPaid ELSE 0)
       /\ 0 <= p.amountPaid
       /\ p.amountPaid <= p.grandTotal

C8_Witness ==
  \E i \in 1..Len(purchases) :
    /\ pLast = [op |-> "payment", id |-> i, ok |-> TRUE]
    /\ purchases[i].amountPaid = purchases[i].grandTotal
    /\ purchases[i].grandTotal > 0

PaymentStatusOf(p) ==
  IF p.amountPaid >= p.grandTotal THEN "paid"
  ELSE IF 0 < p.amountPaid /\ p.amountPaid < p.grandTotal THEN "partial"
  ELSE "pending"

C10_Step ==
  /\ Len(purchases') >= Len(purchases)
  /\ \A i \in 1..Len(purchases') :
       IF i > Len(purchases) THEN purchases'[i].status = "ordered"
       ELSE LET a == purchases[i].status
                b == purchases'[i].status
            IN \/ a = b
               \/ a = "ordered" /\ b \in {"received", "completed"}
                    /\ pLast' = [op |-> "receive", id |-> i, ok |-> TRUE]
               \/ a = "received" /\ b = "completed"
                    /\ pLast' = [op |-> "payment", id |-> i, ok |-> TRUE]
                    /\ purchases'[i].dueAmount = 0
               \/ a = "ordered" /\ b = "cancelled"
                    /\ pLast' = [op |-> "cancel", id |-> i, ok |-> TRUE]

C4_OneLiveConnection ==
  \A t \in TenantIds : Cardinality(liveConnections(conns, t)) <= 1

\* ============================================================ sale claims
\* the ways createSale refuses a sale inside the transaction
BusinessErrors ==
  {"batch_not_found", "medicine_not_found", "insufficient_stock",
   "insufficient_payment", "no_active_counter"}

\* C1: a createSale call that fails because a batch or medicine is missing,
\* a line asks for more than the batch holds, the payment is insufficient or
\* no counter is active has changed no batch, sequence, customer or sale:
\* the step that raises the error leaves the collections as they were, and
\* the failed call has changed them at no point.
C1_FailStep ==
  \A p \in Callers :
    (/\ calls[p].op = "createSale"
     /\ calls[p].pc # "error"
     /\ calls'[p].pc = "error"
     /\ calls'[p].err \in BusinessErrors)
    => /\ DB' = DB
       /\ calls'[p].effects = 0

C1_FailedSaleChangesNothing == [][C1_FailStep]_vars

\* a sale whose second line fails on stock after the first line's decrement
\* was written inside the attempt
C1_Witness ==
  \E p \in Callers :
    /\ calls[p].op = "createSale"
    /\ calls[p].pc = "failed"
    /\ calls[p].err = "insufficient_stock"
    /\ BatchKey("b1") \in calls[p].lost

RECURSIVE soldFrom(_, _)
\* units of batch b on the lines of the sale items
soldFrom(items, b) ==
  IF items = <<>> THEN 0
  ELSE (IF Head(items).batchId = b THEN Head(items).quantity ELSE 0)
       + soldFrom(Tail(items), b)

RECURSIVE soldInSales(_, _)
soldInSales(ss, b) ==
  IF ss = <<>> THEN 0
  ELSE soldFrom(Head(ss).items, b) + soldInSales(Tail(ss), b)

\* C2: in every committed state each batch holds a quantity >= 0 and the
\* committed sales together hold no more units of a batch than it was
\* stocked with, so two sales that together exceed the stock never both
\* commit.
C2_NoOversell ==
  \A b \in BatchIds :
    /\ batches[b].quantity >= 0
    /\ soldInSales(sales, b) <= batches[b].initialQuantity

\* two sales raced for the same batch: one committed, the other lost the
\* write conflict, ran again and found the stock gone
C2_Witness ==
  \E p, q \in Callers :
    /\ calls[p].op = "createSale" /\ calls[p].pc = "done"
    /\ calls[q].op = "createSale" /\ calls[q].pc = "failed"
    /\ calls[q].err = "insufficient_stock"
    /\ "transient" \in calls[q].retriedAfter
    /\ soldInSales(sales, "b1") > 0

RECURSIVE numberOf(_)
\* the number a string of digits denotes
numberOf(digits) ==
  IF digits = <<>> THEN 0
  ELSE 10 * numberOf(SubSeq(digits, 1, Len(digits) - 1)) + digits[Len(digits)]

salesOfDay(d) == {i \in 1..Len(sales) : sales[i].invoiceNumber.date = d}

\* C3: for each day the sequence numbers in the invoice numbers of the
\* committed sales are exactly 1..N for the N sales of that day, each used
\* once.
C3_InvoiceSequence ==
  \A d \in Days :
    LET ids == salesOfDay(d)
        seqs == {numberOf(sales[i].invoiceNumber.digits) : i \in ids}
    IN /\ seqs = 1..Cardinality(ids)
       /\ \A i, j \in ids :
            sales[i].invoiceNumber = sales[j].invoiceNumber => i = j

\* a sale is committed on the day, and an attempt of another call has just
\* been aborted after it had incremented that day's sequence
C3_Witness ==
  \E p \in Callers :
    /\ calls[p].op = "createSale" /\ calls[p].pc = "error"
    /\ SeqKey(now) \in calls[p].lost
    /\ Cardinality(salesOfDay(now)) >= 1

\* C5: createSale and returnSale run their closure at most 3 times in a call,
\* run it again only after a transient error, and give a transient error up
\* only after the third run.
C5_ThreeAttempts ==
  \A p \in Callers :
    /\ calls[p].execs <= MaxAttempts
    /\ calls[p].retriedAfter \subseteq TransientErrors
    /\ (calls[p].pc = "failed" /\ calls[p].err \in TransientErrors)
         => calls[p].execs = MaxAttempts

\* ================================================ purchase race claims
\* no purchase-service call is in progress and no storage write has failed
PurchasesQuiet ==
  /\ \A q \in PCallers : pcallIdle(q)
  /\ pfaults = 0

\* C11: concurrent receive, payment and cancel calls end in a state that a
\* sequential order of the calls produces: stock is added once per received
\* purchase and never for a cancelled one, the recorded payments do not
\* exceed the grand total, a fully paid received purchase is completed, and
\* the supplier aggregates are the sums over the non-cancelled purchases.
C11_Linearizable ==
  PurchasesQuiet =>
    /\ \A b \in BatchIds : batches[b].quantity = ReceivedInto(purchases, b)
    /\ \A i \in 1..Len(purchases) :
         /\ SumSeq(purchases[i].payments) <= purchases[i].grandTotal
         /\ purchases[i].amountPaid = SumSeq(purchases[i].payments)
         /\ purchases[i].status = "received" => purchases[i].dueAmount > 0
    /\ \A s \in SupplierIds :
         /\ suppliers[s].currentDue = SupplierSum(purchases, s, "dueAmount")
         /\ suppliers[s].totalPurchases
              = SupplierSum(purchases, s, "grandTotal")

\* C12: a purchase call that fails on validation or on a storage write
\* leaves none of its writes behind.
C12_AllOrNothing ==
  \A q \in PCallers :
    (pcalls[q].pc = "failed" /\ pcalls[q].err # "cache")
      => pcalls[q].wrote = 0

\* =========================================================== return claims
\* the step in which the return of caller p commits
returnCommits(p) ==
  /\ calls[p].op = "returnSale"
  /\ calls[p].pc = "commit"
  /\ calls'[p].pc = "cache"

C13_Step ==
  \A i \in 1..Len(sales) : \A l \in 1..Len(sales[i].items) :
    /\ sales'[i].items[l].quantity <= sales[i].items[l].quantity
    /\ sales'[i].items[l].total <= sales[i].items[l].total
    /\ sales'[i].items[l].quantity >= 0

\* C13: no step increases the quantity or the total of a line of a committed
\* sale, and no line's quantity falls below 0.
C13_LinesShrink == [][C13_Step]_vars

RECURSIVE returnedValue(_, _)
\* what the lines of a sale have lost in total between two of its versions
returnedValue(old, new) ==
  IF old = <<>> THEN 0
  ELSE (Head(old).total - Head(new).total) + returnedValue(Tail(old), Tail(new))

C14_Step ==
  \A p \in Callers :
    returnCommits(p) =>
      LET old == sales[calls[p].saleId]
          new == sales'[calls[p].saleId]
      IN /\ \A l \in 1..Len(old.items) :
              LET r == old.items[l].quantity - new.items[l].quantity
              IN new.items[l].total
                   = old.items[l].total - returnAmountOf(old.items[l], r)
         /\ \A b \in BatchIds :
              batches'[b].quantity - batches[b].quantity
                = soldFrom(old.items, b) - soldFrom(new.items, b)
         /\ new.grandTotal
              = old.grandTotal - returnedValue(old.items, new.items)

\* C14: a committed return of r units of a line adds r to the line's batch,
\* leaves the line with q - r units and total T - (T/q)*r, and takes from
\* the sale's grandTotal exactly what its lines have lost.
C14_ReturnAmounts == [][C14_Step]_vars

C15_Status ==
  \A i \in 1..Len(sales) :
    LET allReturned == \A l \in 1..Len(sales[i].items) :
                          sales[i].items[l].quantity = 0
    IN /\ sales[i].status \in {"completed", "partial_return", "returned"}
       /\ sales[i].status = "returned" => allReturned
       /\ sales[i].status = "partial_return" => ~allReturned

C15_Step ==
  \A i \in 1..Len(sales) :
    sales[i].status = "returned" => sales'[i] = sales[i]

saleCommits(p) ==
  /\ calls[p].op = "createSale"
  /\ calls[p].pc = "commit"
  /\ calls'[p].pc = "cache"

C16_Step ==
  \A p \in Callers :
    saleCommits(p) =>
      LET sale == sales'[Len(sales')]
          lines == calls[p].data.items
      IN /\ sale.grandTotal = sale.subtotal - sale.totalDiscount + sale.tax
         /\ sale.subtotal = SumOver(sale.items, "total")
         /\ Len(sale.items) = Len(lines)
         /\ \A l \in 1..Len(lines) :
              LET price == IF lines[l].sellingPrice \notin {{}, {0}}
                           THEN TheValue(lines[l].sellingPrice)
                           ELSE batches[lines[l].batchId].sellingPrice
              IN sale.items[l].total
                   = price * lines[l].quantity - lines[l].discount

\* C16: the Sale that createSale commits has grandTotal = subtotal -
\* totalDiscount + tax, subtotal = the sum of its line totals, and each line
\* total = (the price override, else the batch's sellingPrice) * quantity -
\* discount.
C16_SaleTotals == [][C16_Step]_vars

\* a committed sale with a sale discount, a price override and a line discount
C16_Witness ==
  \E i \in 1..Len(sales) :
    /\ sales[i].status = "completed"
    /\ sales[i].totalDiscount > 0
    /\ \E l \in 1..Len(sales[i].items) :
         /\ sales[i].items[l].discount > 0
         /\ sales[i].items[l].sellingPrice
              # batches[sales[i].items[l].batchId].sellingPrice

C17_Step ==
  \A p \in Callers :
    saleCommits(p) =>
      LET sale == sales'[Len(sales')]
      IN IF sale.paymentMethod = "credit"
         THEN sale.changeReturned = 0
         ELSE /\ sale.amountPaid >= sale.grandTotal
              /\ sale.changeReturned = sale.amountPaid - sale.grandTotal
              /\ sale.changeReturned >= 0

\* C17: the Sale that createSale commits has, when paid by a non-credit
\* method, amountPaid >= grandTotal and changeReturned = amountPaid -
\* grandTotal >= 0, and when on credit changeReturned = 0.
C17_PaymentAndChange == [][C17_Step]_vars

\* an overpaid cash sale is committed with its change, and an underpaid cash
\* sale has been refused
C17_Witness ==
  /\ \E i \in 1..Len(sales) :
       /\ sales[i].status = "completed"
       /\ sales[i].paymentMethod = "cash"
       /\ sales[i].changeReturned > 0
  /\ \E p \in Callers :
       /\ calls[p].pc = "failed"
       /\ calls[p].err = "insufficient_payment"

\* ============================================================ batch status
C18_Step ==
  \A b \in BatchIds :
    batches'[b] # batches[b] =>
      batches'[b].status
        = batchStatus(batches'[b].quantity, batches'[b].expiryDate, now)

\* C18: every step that changes a batch leaves it with the status that its
\* quantity and expiry date give at that time.
C18_StatusFresh == [][C18_Step]_vars

\* ============================================= notifications and the cache
C19_Step ==
  \A p \in Callers :
    (calls'[p].emitted # calls[p].emitted /\ calls'[p].emitted # {})
      => calls[p].didCommit

\* C19: a createSale or returnSale call emits its notifications only in a
\* step taken after its transaction has committed; a call whose transaction
\* has not committed emits none.
C19_EmitAfterCommit == [][C19_Step]_vars

\* one call has committed and emitted, another has failed on a lost commit
\* and emitted nothing
C19_Witness ==
  \E p, q \in Callers :
    /\ calls[p].pc = "done" /\ calls[p].didCommit
    /\ calls[p].emitted = {"sale-created", "inventory-updated"}
    /\ calls[q].pc = "failed" /\ calls[q].err \in TransientErrors
    /\ calls[q].lost # {} /\ calls[q].emitted = {}

\* C20: a call whose transaction has committed never fails, whatever the
\* cache does, and returns with its notifications emitted.
C20_CacheFaultTolerated ==
  \A p \in Callers :
    calls[p].didCommit =>
      /\ calls[p].pc # "failed"
      /\ calls[p].pc = "done" => calls[p].emitted = notificationsOf(calls[p].op)

\* ================================================= failures before writes
\* the business-rule failures of createSale and returnSale
RuleErrors ==
  {"insufficient_stock", "insufficient_payment", "no_active_counter",
   "exceeds_sold"}

C21_Step ==
  \A p \in Callers :
    (/\ calls[p].pc # "error"
     /\ calls'[p].pc = "error"
     /\ calls'[p].err \in RuleErrors)
    => calls[p].written = {}

\* C21: when an attempt of createSale or returnSale raises a business-rule
\* failure, the attempt has written no batch, counter sequence, sale or
\* customer before it.
C21_FailBeforeWrite == [][C21_Step]_vars

\* ================================================== idle sweep of the router
\* a getTenantConnection call of caller g returns in this step
getReturns(g) == gcalls'[g] # gcalls[g] /\ gcalls'[g].pc = "done"

C22_Step ==
  /\ \A g \in GetCallers :
       /\ getReturns(g) =>
            tenantConnections'[gcalls'[g].tenant]
              = [conn |-> gcalls'[g].result, lastAccessed |-> rclock]
       /\ (/\ gcalls'[g] # gcalls[g]
           /\ gcalls[g].pc # "creating"
           /\ tenantConnections[gcalls'[g].tenant].conn = 0)
          => gcalls'[g].pc = "creating"
       /\ (getReturns(g) /\ gcalls[g].pc = "creating")
          => /\ gcalls'[g].result \notin 1..Len(conns)
             /\ conns'[gcalls'[g].result].state = "connected"
  /\ (sweep'.pc = "idle" /\ sweep'.ran)
     => \A t \in TenantIds :
          tenantConnections'[t].conn # 0
            => tenantConnections'[t].lastAccessed >= sweep'.cutoff

\* C22: a returning getTenantConnection leaves the tenant's entry with the
\* current time as its last access; once a sweep is over no registered entry
\* was last accessed before the sweep's thirty-minute cutoff; and a call for
\* a tenant without an entry creates a new connection and registers it.
C22_IdleEviction == [][C22_Step]_vars

\* tenant t1 was evicted by the last sweep and has a new live connection
C22_Witness ==
  /\ sweep.pc = "idle"
  /\ "t1" \in sweep.evicted
  /\ tenantConnections["t1"].conn # 0
  /\ conns[tenantConnections["t1"].conn].state = "connected"
  /\ \E c \in 1..Len(conns) : conns[c].tenant = "t1" /\ conns[c].state = "closed"

\* ===================================================== no dead handles
C23_Step ==
  /\ \A g \in GetCallers :
       getReturns(g) =>
         /\ conns'[gcalls'[g].result].state = "connected"
         /\ tenantConnections'[gcalls'[g].tenant].conn = gcalls'[g].result
  /\ \A c \in 1..Len(conns) :
       (conns[c].state = "connected" /\ conns'[c].state = "disconnected")
         => tenantConnections'[conns[c].tenant].conn = 0
  /\ \A g \in GetCallers :
       (/\ gcalls'[g] # gcalls[g]
        /\ gcalls[g].pc # "creating"
        /\ ~entryLive(tenantConnections[gcalls'[g].tenant], conns))
       => gcalls'[g].pc = "creating"

\* C23: the handle a getTenantConnection call returns is connected and is
\* the registered one; a connection loss removes the tenant's entry; and a
\* call that finds no live entry goes on to create a connection.
C23_NoDeadHandle == [][C23_Step]_vars

\* a tenant lost its connection and a later call returned a new one
C23_Witness ==
  \E g \in GetCallers :
    /\ gcalls[g].pc = "done"
    /\ conns[gcalls[g].result].state = "connected"
    /\ \E c \in 1..Len(conns) :
         /\ c < gcalls[g].result
         /\ conns[c].tenant = gcalls[g].tenant
         /\ conns[c].state = "disconnected"

\* ============================================ purchase-order numbers
\* caller q has been given a purchase-order number by
\* generatePurchaseOrderNumber and has not stored its purchase yet
numberAssigned(q) == pcalls[q].op = "create" /\ pcalls[q].pc = "insert"

\* C24: the purchase-order number given to a createPurchase call is given to
\* no other call and is borne by no stored purchase.
C24_DistinctOrderNumbers ==
  \A q \in PCallers :
    numberAssigned(q) =>
      /\ \A r \in PCallers \ {q} :
           numberAssigned(r) =>
             pcalls[r].local.purchaseOrderNumber
               # pcalls[q].local.purchaseOrderNumber
      /\ \A i \in 1..Len(purchases) :
           purchases[i].purchaseOrderNumber
             # pcalls[q].local.purchaseOrderNumber

\* ================================================ stale-while-revalidate
\* the call of caller f returns a cached envelope in this step
hitReturns(f) == fetches[f].pc = "hit" /\ fetches'[f].pc = "done"

C25_Step ==
  \A f \in FCallers :
    LET c == fetches[f]
        d == fetches'[f]
        staleAfter == IF c.staleSeconds = {} THEN c.ttlSeconds \div 2
                      ELSE TheValue(c.staleSeconds)
    IN /\ hitReturns(f) =>
            /\ d.result.data = c.envelope.data
            /\ d.result.fromCache
            /\ d.result.isRevalidating = (c.ageMs > staleAfter)
            /\ d.loaderCalls = IF c.ageMs > staleAfter THEN 1 ELSE 0
            /\ d.bg = IF c.ageMs > staleAfter THEN "fetching" ELSE "none"
       /\ (d.result.fromCache /\ d.pc = "done") => d.loaderCalls <= 1

\* C25: a call that finds an unexpired envelope of age a returns its data
\* with fromCache; when a <= staleAfter it does not revalidate and never
\* calls the loader, when a > staleAfter it revalidates and calls the loader
\* exactly once, in the background.
C25_StaleWhileRevalidate == [][C25_Step]_vars

\* the step in which the background refresh of caller f fails
refreshFails(f) == fetches[f].bg = "fetching" /\ fetches'[f].bg = "failed"

C26_Step ==
  \A f \in FCallers :
    refreshFails(f) =>
      /\ cache' = cache
      /\ fetches'[f].onFreshData = fetches[f].onFreshData
      /\ fetches'[f].result = fetches[f].result
      /\ fetches'[f].pc = "done"
      /\ fetches'[f].err = "none"

\* C26: when the loader of a background refresh fails, the call that
\* returned the stale value keeps its result and gets no error, onFreshData
\* is not invoked and the stored envelope stays as it was.
C26_FailedRefreshIsSilent == [][C26_Step]_vars

\* a stale value was returned, the refresh failed and the envelope is still
\* the one that was read
C26_Witness ==
  \E f \in FCallers :
    /\ fetches[f].pc = "done"
    /\ fetches[f].result.isRevalidating
    /\ fetches[f].bg = "failed"
    /\ fetches[f].onFreshData = 0
    /\ cache = fetches[f].envelope

\* ========================================================= cache key hash
RECURSIVE sameValue(_, _)
\* the two values are the same: objects have the same keys with the same
\* values, whatever the order of their properties
sameValue(a, b) ==
  IF a.t # b.t THEN FALSE
  ELSE IF a.t = "obj"
  THEN /\ {a.entries[i][1] : i \in 1..Len(a.entries)}
            = {b.entries[j][1] : j \in 1..Len(b.entries)}
       /\ \A i \in 1..Len(a.entries) : \A j \in 1..Len(b.entries) :
            a.entries[i][1] = b.entries[j][1]
              => sameValue(a.entries[i][2], b.entries[j][2])
  ELSE IF a.t = "arr"
  THEN /\ Len(a.items) = Len(b.items)
       /\ \A i \in 1..Len(a.items) : sameValue(a.items[i], b.items[i])
  ELSE a = b

hashed == ret # <<>>

C28_Injective ==
  (hashed /\ ~sameValue(arg[1], arg[2])) => ret[1] # ret[2]

\* ================================================ purchase payload mapper
\* the keys of the invalid line fields of item, the index-th line
invalidLineKeys(item, index) ==
  LET prefix == "items." \o ToString(index)
  IN IF item.t # "line" THEN {prefix}
     ELSE {prefix \o "." \o f[1] :
             f \in {g \in
               { <<"medicineId",
                   normalizeString(item.medicineId, "Medicine", TRUE)>>,
                 <<"batchNumber",
                   normalizeString(item.batchNumber, "Batch number", TRUE)>>,
                 <<"quantity", toPositiveInteger(item.quantity, "Quantity")>>,
                 <<"freeQuantity",
                   toNonNegativeInteger(item.freeQuantity, "Free quantity")>>,
                 <<"purchasePrice",
                   toMoney(item.purchasePrice, "Purchase price")>>,
                 <<"sellingPrice",
                   toMoney(item.sellingPrice, "Selling price")>>,
                 <<"mrp", toMoney(item.mrp, "MRP")>>,
                 <<"expiryDate",
                   toDateUTC(item.expiryDate, "Expiry date", TRUE)>>,
                 <<"alertThreshold",
                   toNonNegativeInteger(item.alertThreshold,
                                        "Alert threshold")>>,
                 <<"notes", normalizeString(item.notes, "Item notes", FALSE)>>
               } : g[2].error # {}}}

\* the keys of the fields of the payload that their parsers refuse
invalidKeys(payload) ==
  {f[1] : f \in {g \in
     { <<"supplierId", normalizeString(payload.supplierId, "Supplier", TRUE)>>,
       <<"supplierInvoiceNumber",
         normalizeString(payload.supplierInvoiceNumber, "Supplier invoice",
                         FALSE)>>,
       <<"orderDate",
         toDateUTC(orderDateOrNow(payload.orderDate, 0), "Order date", TRUE)>>,
       <<"expectedDeliveryDate",
         toDateUTC(payload.expectedDeliveryDate, "Expected delivery date",
                   FALSE)>>,
       <<"discount", toMoney(payload.discount, "Discount")>>,
       <<"tax", toMoney(payload.tax, "Tax")>>,
       <<"amountPaid", toMoney(payload.amountPaid, "Amount paid")>>,
       <<"notes", normalizeString(payload.notes, "Notes", FALSE)>>
     } : g[2].error # {}}}
  \cup (IF payload.items.t # "arr" \/ payload.items.items = <<>>
        THEN {"items"}
        ELSE UNION {invalidLineKeys(payload.items.items[i], i - 1) :
                      i \in 1..Len(payload.items.items)})
  \cup (IF /\ payload.initialPaymentMethod.t = "str"
           /\ payload.initialPaymentMethod.s # <<>>
           /\ toLowerCase(payload.initialPaymentMethod.s) \notin PAYMENT_METHODS
        THEN {"initialPaymentMethod"} ELSE {})

mapped == ret # <<>> /\ arg \in MapperInputs

\* C29: the mapper throws exactly when some field of the payload is invalid,
\* and the error map it throws has one entry for every invalid field and no
\* other.
C29_AllErrorsReported ==
  mapped =>
    /\ ret.thrown <=> invalidKeys(arg) # {}
    /\ ret.thrown => {e.key : e \in ret.errors} = invalidKeys(arg)
    /\ \A e1, e2 \in ret.errors : e1.key = e2.key => e1 = e2

\* ============================================ customer totals after returns
RECURSIVE unitsAsked(_, _)
\* the units of line l of the sale that the items of a return ask back
unitsAsked(items, l) ==
  IF items = <<>> THEN 0
  ELSE (IF Head(items).saleItemIndex + 1 = l THEN Head(items).quantity ELSE 0)
       + unitsAsked(Tail(items), l)

\* the return of caller p asks back every unit its sale still holds on
\* every line
asksEveryUnit(p) ==
  LET c == calls[p]
  IN /\ c.op = "returnSale"
     /\ c.saleId \in 1..Len(sales)
     /\ \A l \in 1..Len(sales[c.saleId].items) :
          unitsAsked(c.data.items, l) = sales[c.saleId].items[l].quantity

\* the step in which the return of caller p ends after its line loop: it
\* commits, or sale.save() refuses the sale
returnEnds(p) ==
  /\ calls[p].op = "returnSale"
  /\ calls[p].pc \in {"rfinish", "commit"}
  /\ \/ calls'[p].pc = "cache"
     \/ calls'[p].pc = "error" /\ calls'[p].err = "schema_validation"

C30_Step ==
  \A p \in Callers :
    (/\ returnEnds(p)
     /\ asksEveryUnit(p)
     /\ Len(sales) = 1
     /\ sales[calls[p].saleId].customerId # {})
    => LET cu == TheValue(sales[calls[p].saleId].customerId)
       IN /\ customers'[cu].totalPurchases = 0
          /\ customers'[cu].loyaltyPoints = 0

C31_Step ==
  \A id \in PurchaseIds, data \in ReceivePurchaseInputs :
    (receivePurchase(id, data) /\ pLast'.ok) =>
      LET old == purchases[id].items
          new == purchases'[id].items
      IN /\ \A i \in 1..Len(old) :
              LET us == updateFor(old[i], data.items)
                  explicit == us # {} /\ TheValue(us).quantityReceived # {}
              IN /\ explicit =>
                      new[i].receivedQuantity
                        = TheValue(TheValue(us).quantityReceived)
                 /\ us = {} =>
                      /\ new[i].receivedQuantity = old[i].quantity
                      /\ new[i].receivedFreeQuantity = old[i].freeQuantity
         /\ \A b \in BatchIds :
              batches'[b].quantity
                = (IF batches[b].exists THEN batches[b].quantity ELSE 0)
                  + ItemsReceivedInto(new, b)

\* C31: a receipt that succeeds leaves every line without an override at its
\* ordered quantity and ordered free quantity, every line with an explicit
\* quantityReceived override at exactly that quantity (0 included), and adds
\* to each batch the received and received free quantities of its lines.
C31_ReceivedQuantities == [][C31_Step]_vars

\* ===================================== closures executed more than once
\* what the items of a return take from the lines of a sale
RECURSIVE valueAsked(_, _)
valueAsked(items, sale) ==
  IF items = <<>> THEN 0
  ELSE returnAmountOf(sale.items[Head(items).saleItemIndex + 1],
                      Head(items).quantity)
       + valueAsked(Tail(items), sale)

C32_Step ==
  \A p \in Callers :
    (/\ calls[p].pc = "commit"
     /\ calls'[p].pc = "cache"
     /\ calls[p].execs > 1)
    => IF calls[p].op = "createSale"
       THEN /\ Len(sales') = Len(sales) + 1
            /\ \A b \in BatchIds :
                 batches'[b].quantity
                   = batches[b].quantity - soldFrom(sales'[Len(sales')].items, b)
       ELSE LET old == sales[calls[p].saleId]
                new == sales'[calls[p].saleId]
                once == valueAsked(calls[p].data.items, old)
            IN /\ Len(sales') = Len(sales)
               /\ \A b \in BatchIds :
                    batches'[b].quantity - batches[b].quantity
                      = soldFrom(old.items, b) - soldFrom(new.items, b)
               /\ new.grandTotal = old.grandTotal - once
               /\ \A cu \in old.customerId :
                    /\ customers'[cu].totalPurchases
                         = customers[cu].totalPurchases - once
                    /\ customers'[cu].loyaltyPoints
                         = customers[cu].loyaltyPoints - (once \div 100)

\* C32: when a call whose closure was executed more than once commits, it
\* changes the database as one execution does: a sale takes each line
\* quantity from its batch once and inserts one Sale; a return gives the
\* returned units back once and takes the returned value from the sale's
\* grandTotal and from the customer's totals once.
C32_RetryIsIdempotent == [][C32_Step]_vars

C34_NoLeak ==
  \A c \in 1..Len(conns) :
    conns[c].state = "connected"
      => tenantConnections[conns[c].tenant].conn = c

\* ============================================== what the idle sweep closes
\* the sweep calls close() on the connection of a tenant in this step
sweepCloses == sweep' # sweep /\ sweep'.pc = "closing"

C35_Step ==
  sweepCloses =>
    inactive(tenantConnections'[sweep'.curTenant], rclock)

\* C35: whenever the idle sweep closes the connection of a tenant, the
\* tenant's entry was last accessed more than thirty minutes before that
\* moment.
C35_SweepClosesIdleOnly == [][C35_Step]_vars

\* ============================================ status and due of a purchase
\* C36: a purchase with status RECEIVED has dueAmount > 0, and a purchase
\* with status COMPLETED has dueAmount 0 and paymentStatus paid.
C36_StatusAndDue ==
  \A i \in 1..Len(purchases) :
    /\ purchases[i].status = "received" => purchases[i].dueAmount > 0
    /\ purchases[i].status = "completed" =>
         /\ purchases[i].dueAmount = 0
         /\ purchases[i].paymentStatus = "paid"

\* ======================================================== payments ledger
C37_Ledger ==
  \A i \in 1..Len(purchases) :
    SumSeq(purchases[i].payments) = purchases[i].amountPaid

C37_Step ==
  \A id \in PurchaseIds, data \in RecordPaymentInputs :
    (recordPayment(id, data) /\ ~pLast'.ok) =>
      UNCHANGED <<purchases, suppliers>>

\* C37: the amounts in the payments ledger of every purchase sum to its
\* amountPaid, and a recordPayment call that is rejected changes no purchase
\* and no supplier.
C37_PaymentsLedger == []C37_Ledger /\ [][C37_Step]_vars

\* ======================================================= purchase totals
\* C38: the subtotal of every purchase is the sum of its line totals and its
\* grandTotal is subtotal - discount + tax.
C38_Totals ==
  \A i \in 1..Len(purchases) :
    /\ purchases[i].subtotal = SumOver(purchases[i].items, "total")
    /\ purchases[i].grandTotal
         = purchases[i].subtotal - purchases[i].discount + purchases[i].tax

\* ==================================================== returns that commit
\* the return of caller p meets the preconditions of returnSale: the sale is
\* not fully returned and every item asks for at least one unit and no more
\* than its line still holds
returnAdmissible(p) ==
  LET c == calls[p]
  IN /\ c.op = "returnSale"
     /\ c.saleId \in 1..Len(sales)
     /\ sales[c.saleId].status # "returned"
     /\ Len(c.data.items) > 0
     /\ \A k \in 1..Len(c.data.items) :
          /\ c.data.items[k].saleItemIndex + 1 \in 1..Len(sales[c.saleId].items)
          /\ c.data.items[k].quantity >= 1
          /\ unitsAsked(c.data.items, c.data.items[k].saleItemIndex + 1)
               <= sales[c.saleId].items[c.data.items[k].saleItemIndex + 1].quantity

C39_Step ==
  \A p \in Callers :
    (/\ returnAdmissible(p)
     /\ calls[p].pc \in {"rlines", "rfinish"}
     /\ calls[p].ws.sales = sales
     /\ calls'[p].pc = "error")
    => calls'[p].err \in TransientErrors

C39_GrandTotal == \A i \in 1..Len(sales) : sales[i].grandTotal >= 0

\* C39: a return that meets the preconditions of returnSale is refused by no
\* check and no validation (it can only lose a transient conflict), and the
\* grandTotal of every sale stays >= 0.
C39_ReturnsCommit == []C39_GrandTotal /\ [][C39_Step]_vars

====
